---------------------------- MODULE Spec2Model ----------------------------
(***************************************************************************)
(* GPTQ post-training quantization: GenericGPTQRunner (graph walk, Hessian *)
(* accumulation, state-dict assembly) and faster_quant (blockwise GPTQ),   *)
(* from torchao/quantization/GPTQ.py.                                      *)
(*                                                                         *)
(* Arithmetic is exact rational arithmetic (the claims are stated in exact *)
(* arithmetic); a rational is a pair <<n, d>> with d > 0 in lowest terms.  *)
(* A matrix is a sequence of rows.  Column indices are 1-based here and    *)
(* 0-based in the source.                                                  *)
(***************************************************************************)
EXTENDS Integers, Sequences, FiniteSets, TLC

(***************************************************************************)
(* Exact rational arithmetic                                               *)
(***************************************************************************)
Abs(n) == IF n < 0 THEN -n ELSE n

RECURSIVE Gcd(_, _)
Gcd(a, b) == IF b = 0 THEN a ELSE Gcd(b, a % b)

RNorm(n, d) ==
    LET s == IF d < 0 THEN -1 ELSE 1
        g == Gcd(Abs(n), Abs(d))
    IN  IF n = 0 THEN <<0, 1>> ELSE <<(s * n) \div g, (s * d) \div g>>

R(n) == <<n, 1>>
RZero == <<0, 1>>
ROne == <<1, 1>>

RAdd(a, b) ==
    LET g == Gcd(a[2], b[2])
        l == (a[2] \div g) * b[2]
    IN  RNorm(a[1] * (l \div a[2]) + b[1] * (l \div b[2]), l)
RNeg(a) == <<-a[1], a[2]>>
RSub(a, b) == RAdd(a, RNeg(b))
RMul(a, b) ==
    LET g1 == Gcd(Abs(a[1]), b[2])
        g2 == Gcd(Abs(b[1]), a[2])
    IN  IF a[1] = 0 \/ b[1] = 0 THEN RZero
        ELSE <<(a[1] \div g1) * (b[1] \div g2), (a[2] \div g2) * (b[2] \div g1)>>
RInv(a) == IF a[1] < 0 THEN <<-a[2], -a[1]>> ELSE <<a[2], a[1]>>
RDiv(a, b) == RMul(a, RInv(b))
\* the sign of a/b - c/d (b, d > 0), by continued fractions: no product is
\* formed, so it cannot overflow
RECURSIVE FracCmp(_, _, _, _)
FracCmp(a, b, c, d) ==
    LET qa == a \div b
        qc == c \div d
        ra == a - qa * b
        rc == c - qc * d
    IN  IF qa < qc THEN -1
        ELSE IF qa > qc THEN 1
        ELSE IF ra = 0 /\ rc = 0 THEN 0
        ELSE IF ra = 0 THEN -1
        ELSE IF rc = 0 THEN 1
        ELSE -FracCmp(b, ra, d, rc)
RLess(a, b) == FracCmp(a[1], a[2], b[1], b[2]) < 0
RLeq(a, b) == FracCmp(a[1], a[2], b[1], b[2]) <= 0
RAbs(a) == <<Abs(a[1]), a[2]>>
RMax(a, b) == IF RLess(a, b) THEN b ELSE a

\* torch.round: round half to even
RRound(a) ==
    LET f == a[1] \div a[2]
        r == a[1] - f * a[2]
    IN  IF 2 * r < a[2] THEN f
        ELSE IF 2 * r > a[2] THEN f + 1
        ELSE IF f % 2 = 0 THEN f ELSE f + 1

RECURSIVE RSum(_)
RSum(s) == IF s = <<>> THEN RZero ELSE RAdd(Head(s), RSum(Tail(s)))

RECURSIVE RMaxSeq(_)
RMaxSeq(s) == IF s = <<>> THEN RZero ELSE RMax(Head(s), RMaxSeq(Tail(s)))

(***************************************************************************)
(* Matrices                                                                *)
(***************************************************************************)
NRows(M) == Len(M)
NCols(M) == IF Len(M) = 0 THEN 0 ELSE Len(M[1])
Mat(rows, cols, f(_, _)) == [r \in 1..rows |-> [c \in 1..cols |-> f(r, c)]]
ZeroMat(rows, cols) == [r \in 1..rows |-> [c \in 1..cols |-> RZero]]
Transpose(M) == [c \in 1..NCols(M) |-> [r \in 1..NRows(M) |-> M[r][c]]]
MatMul(A, B) ==
    [r \in 1..NRows(A) |-> [c \in 1..NCols(B) |->
        RSum([k \in 1..NCols(A) |-> RMul(A[r][k], B[k][c])])]]
MatAdd(A, B) == [r \in 1..NRows(A) |-> [c \in 1..NCols(A) |-> RAdd(A[r][c], B[r][c])]]
MatSub(A, B) == [r \in 1..NRows(A) |-> [c \in 1..NCols(A) |-> RSub(A[r][c], B[r][c])]]
MatScale(k, A) == [r \in 1..NRows(A) |-> [c \in 1..NCols(A) |-> RMul(k, A[r][c])]]
\* M[:, a:b] of the source, as the 1-based columns a+1..Min(b, columns)
ColSlice(M, lo, hi) ==
    [r \in 1..NRows(M) |-> [c \in 1..(hi - lo + 1) |-> M[r][lo + c - 1]]]
\* M with every entry evaluated (the value is M itself)
RECURSIVE Materialize(_, _)
Materialize(M, i) ==
    IF i > Len(M) THEN <<>>
    ELSE <<SubSeq(M[i], 1, Len(M[i]))>> \o Materialize(M, i + 1)
Tensor(M) == Materialize(M, 1)

IntMat(M) == [r \in 1..Len(M) |-> [c \in 1..Len(M[r]) |-> R(M[r][c])]]
Min(a, b) == IF a < b THEN a ELSE b
Max(a, b) == IF a < b THEN b ELSE a


(***************************************************************************)
(* Cholesky factorization, root-free and in closed form.                   *)
(* torch.linalg.cholesky(M, upper=True) is the upper triangular U with     *)
(* positive diagonal and M = U^T U (the lower factor is its transpose).    *)
(* U is carried as U[i][j] = sqrt(d2[i]) * unit[i][j], with unit a unit    *)
(* upper triangular matrix and d2[i] = U[i][i]^2.  The factor is unique,   *)
(* and in terms of determinants                                            *)
(*    d2[i] = D(i) / D(i-1),  D(k) the leading principal minor of order k, *)
(*    unit[i][j] = det M[1..i, {1..i-1, j}] / D(i),                        *)
(* and it exists exactly when every D(k) > 0; otherwise the call raises.   *)
(***************************************************************************)
\* M restricted to the rows and columns listed (increasing sequences)
SubMat(M, rows, cols) ==
    Tensor([r \in 1..Len(rows) |-> [c \in 1..Len(cols) |-> M[rows[r]][cols[c]]]])

\* M with row i and column j removed
Minor(M, i, j) ==
    Tensor([r \in 1..(NRows(M) - 1) |-> [c \in 1..(NCols(M) - 1) |->
               M[IF r < i THEN r ELSE r + 1][IF c < j THEN c ELSE c + 1]]])

RECURSIVE Det(_)
Det(M) ==
    IF NRows(M) = 0 THEN ROne
    ELSE IF NRows(M) = 1 THEN M[1][1]
    ELSE IF NRows(M) = 2 THEN RSub(RMul(M[1][1], M[2][2]), RMul(M[1][2], M[2][1]))
    ELSE RSum([j \in 1..NCols(M) |->
                 RMul(IF j % 2 = 1 THEN M[1][j] ELSE RNeg(M[1][j]), Det(Minor(M, 1, j)))])

Range(lo, hi) == [k \in 1..(hi - lo + 1) |-> lo + k - 1]
Without(s, x) == SelectSeq(s, LAMBDA y : y # x)

LeadingMinor(M, k) == Det(SubMat(M, Range(1, k), Range(1, k)))

cholesky(M) ==
    LET n == NRows(M)
    IN  IF \E k \in 1..n : RLeq(LeadingMinor(M, k), RZero)
        THEN [ok |-> FALSE, d2 |-> <<>>, unit |-> <<>>,
              info |-> CHOOSE k \in 1..n :
                          /\ RLeq(LeadingMinor(M, k), RZero)
                          /\ \A k2 \in 1..(k - 1) : ~RLeq(LeadingMinor(M, k2), RZero)]
        ELSE [ok |-> TRUE,
              d2 |-> [i \in 1..n |-> RDiv(LeadingMinor(M, i), LeadingMinor(M, i - 1))],
              unit |-> [i \in 1..n |-> [j \in 1..n |->
                          IF j < i THEN RZero
                          ELSE IF j = i THEN ROne
                          ELSE RDiv(Det(SubMat(M, Range(1, i), Append(Range(1, i - 1), j))),
                                    LeadingMinor(M, i))]]]

(***************************************************************************)
(* torch.linalg.cholesky(torch.cholesky_inverse(L), upper=True) for the    *)
(* Cholesky factor L of H: the upper factor of H^-1.  By Jacobi's identity *)
(* a minor of H^-1 is the complementary minor of H over det H, so with     *)
(* T(i) = det H[i..n, i..n] (T(n+1) = 1):                                  *)
(*    d2[i] = T(i+1) / T(i),                                               *)
(*    unit[i][j] = (-1)^(i+j) det H[{i..n} \ {j}, i+1..n] / T(i+1).        *)
(***************************************************************************)
TrailingMinor(H, i) == Det(SubMat(H, Range(i, NRows(H)), Range(i, NRows(H))))

cholesky_upper_of_inverse(H) ==
    LET n == NRows(H)
    IN  [ok |-> TRUE,
         d2 |-> [i \in 1..n |-> RDiv(TrailingMinor(H, i + 1), TrailingMinor(H, i))],
         unit |-> [i \in 1..n |-> [j \in 1..n |->
                     IF j < i THEN RZero
                     ELSE IF j = i THEN ROne
                     ELSE LET m == Det(SubMat(H, Without(Range(i, n), j), Range(i + 1, n)))
                          IN  RDiv(IF (i + j) % 2 = 0 THEN m ELSE RNeg(m),
                                   TrailingMinor(H, i + 1))]]]

(***************************************************************************)
(* Quantization plugin: Int8DynActInt4WeightGPTQQuantizer's functions,     *)
(* curried with the plugin's group size gs.  An integer tensor is carried  *)
(* as a matrix of rationals with denominator 1.  qparams is a record       *)
(* [scales, zeros], each a matrix out_features x groups.                   *)
(***************************************************************************)
n_bit == 4
quant_min == -(2 ^ (n_bit - 1))
quant_max == 2 ^ (n_bit - 1) - 1
\* torch.finfo(torch.float32).eps
float32_eps == <<1, 8388608>>

\* get_group_qparams_symmetric(w, n_bit, groupsize)
get_group_qparams_symmetric(w, gs0) ==
    LET gs == IF gs0 > NCols(w) THEN NCols(w) ELSE gs0
        ng == NCols(w) \div gs
        scale(r, g) ==
            LET max_val_abs == RMaxSeq([c \in 1..gs |-> RAbs(w[r][(g - 1) * gs + c])])
            IN  RMax(RDiv(max_val_abs, <<quant_max - quant_min, 2>>), float32_eps)
    IN  [scales |-> Mat(NRows(w), ng, scale),
         zeros  |-> ZeroMat(NRows(w), ng)]

Clamp(x, lo, hi) == IF x < lo THEN lo ELSE IF x > hi THEN hi ELSE x

\* input.div(scale).add(zero_point).round().clamp_(quant_min, quant_max), for
\* scale > 0; the saturated cases are decided before dividing
QuantizeEntry(x, scale, zero_point) ==
    IF RLeq(RMul(RSub(R(quant_max), zero_point), scale), x) THEN quant_max
    ELSE IF RLeq(x, RMul(RSub(R(quant_min), zero_point), scale)) THEN quant_min
    ELSE Clamp(RRound(RAdd(RDiv(x, scale), zero_point)), quant_min, quant_max)

\* the group of qparams that column c of `input` is quantized with
GroupOfColumn(input, qparams, gs0, c) ==
    LET gs == IF gs0 > NCols(input) /\ NCols(qparams.scales) = 1
              THEN NCols(input) ELSE gs0
    IN  ((c - 1) \div gs) + 1

\* torch.ops.quantized_decomposed.quantize_per_channel_group
quantize_per_channel_group(input, qparams, gs0) ==
    [r \in 1..NRows(input) |-> [c \in 1..NCols(input) |->
        LET g == GroupOfColumn(input, qparams, gs0, c)
        IN  R(QuantizeEntry(input[r][c], qparams.scales[r][g], qparams.zeros[r][g]))]]

\* torch.ops.quantized_decomposed.dequantize_per_channel_group
dequantize_per_channel_group(q, qparams, gs0) ==
    [r \in 1..NRows(q) |-> [c \in 1..NCols(q) |->
        LET g == GroupOfColumn(q, qparams, gs0, c)
        IN  RMul(RSub(q[r][c], qparams.zeros[r][g]), qparams.scales[r][g])]]

get_qparams_func(w, gs) == get_group_qparams_symmetric(w, gs)
quantize_func(w, qparams, gs) == quantize_per_channel_group(w, qparams, gs)
dequantize_func(q, qparams, gs) == dequantize_per_channel_group(q, qparams, gs)

RECURSIVE ConcatCols(_)
ConcatCols(ms) ==
    IF Len(ms) = 1 THEN ms[1]
    ELSE LET rest == ConcatCols(Tail(ms))
         IN  [r \in 1..NRows(ms[1]) |-> ms[1][r] \o rest[r]]

\* [torch.cat(x, dim=1) for x in zip(*qparams_list)]
combine_qparams_list_func(qparams_list) ==
    [scales |-> ConcatCols([k \in 1..Len(qparams_list) |-> qparams_list[k].scales]),
     zeros  |-> ConcatCols([k \in 1..Len(qparams_list) |-> qparams_list[k].zeros])]


(***************************************************************************)
(* State                                                                   *)
(***************************************************************************)
VARIABLES
    qmode,           \* self.get_qparams_func: "unset" (attribute never set),
                     \* "none" (configured with None) or "set"
    gptq_done,       \* self.gptq_done
    new_state_dict,  \* self.new_state_dict: name -> tensor
    model,           \* what __init__ was given: the traced graph, the named
                     \* parameters, the calibration inputs, blocksize,
                     \* percdamp, groupsize and the plugin's padding policy
    env,             \* fx.Interpreter's results of the nodes executed so far
    running,         \* run() is walking the graph
    stack,           \* the active call_function invocations, innermost last
    fq,              \* the locals of the faster_quant invocation in flight
    outcome,         \* how the last call of the runner's API ended
    hist,            \* history of the current run, per graph node, and the
                     \* module names printed so far
    quantizer,       \* an Int8DynActInt4WeightQuantizer and the locals of its
                     \* _create_quantized_state_dict
    multi_inputs,    \* the MultiInput objects, by identity, and the last call
                     \* made on one of them
    recorder         \* an InputRecorder and the last call of its _model_call

\* the objects of one GenericGPTQRunner, and the objects beside it
runner == <<qmode, gptq_done, new_state_dict, model, env, running, stack, fq,
            outcome, hist>>
beside_runner == <<quantizer, multi_inputs, recorder>>
vars == <<runner, beside_runner>>

quantizer_idle == [pc |-> "idle"]
multi_inputs_none == [heap |-> <<>>, call |-> [op |-> "none"]]
recorder_idle == [pc |-> "idle"]

(***************************************************************************)
(* faster_quant(H, W)                                                      *)
(***************************************************************************)
fq_idle == [pc |-> "idle"]

\* the plugin's functions are curried with the group size; in whole-tensor
\* mode the plugin has one group spanning every column
PluginGroupsize(groupsize, columns) == IF groupsize = -1 THEN columns ELSE groupsize

Diag(H) == [c \in 1..NRows(H) |-> H[c][c]]
Mean(s) == RDiv(RSum(s), R(Len(s)))

\* lines 481-483: dead = torch.diag(H) == 0; H[dead, dead] = 1; W[:, dead] = 0
DeadColumns(H) == {c \in 1..NRows(H) : H[c][c] = RZero}
FixDeadH(H) ==
    [r \in 1..NRows(H) |-> [c \in 1..NCols(H) |->
        IF r = c /\ c \in DeadColumns(H) THEN ROne ELSE H[r][c]]]
\* dead columns of W left as they are
ZeroDeadW_keeps_w(W, H) == W

ZeroDeadW(W, H) ==
    [r \in 1..NRows(W) |-> [c \in 1..NCols(W) |->
        IF c \in DeadColumns(H) THEN RZero ELSE W[r][c]]]

\* lines 488-490: damp = percdamp * mean(diag(H)); H[diag, diag] += damp
Dampen(H, percdamp) ==
    LET damp == RMul(percdamp, Mean(Diag(H)))
    IN  [r \in 1..NRows(H) |-> [c \in 1..NCols(H) |->
            IF r = c THEN RAdd(H[r][c], damp) ELSE H[r][c]]]

\* lines 469-496: everything before the block loop.  The result is the
\* frame of locals, or pc = "error" when a factorization raises.
faster_quant_begin(H, W, blocksize, percdamp, groupsize) ==
    LET columns == NCols(W)
        gs == PluginGroupsize(groupsize, columns)
        cur_qparams == IF groupsize = -1 THEN <<get_qparams_func(W, gs)>> ELSE <<>>
        H1 == Tensor(FixDeadH(H))
        W1 == Tensor(ZeroDeadW(W, H))
        H2 == Tensor(Dampen(H1, percdamp))
        L == cholesky(H2)
        Hinv == IF L.ok THEN cholesky_upper_of_inverse(H2) ELSE L
    IN  IF ~L.ok
        THEN [pc |-> "error", error |-> "LinAlgError",
              args |-> <<"linalg.cholesky", "leading minor is not positive-definite">>,
              info |-> L.info]
        ELSE [pc |-> "block", blocksize |-> blocksize, groupsize |-> groupsize,
              columns |-> columns, W |-> W1, Hinv |-> Hinv,
              DQ |-> ZeroMat(NRows(W), columns),
              cur_qparams |-> cur_qparams, all_qparams |-> <<>>,
              i1 |-> 0, i2 |-> 0, i |-> 0,
              W1 |-> <<>>, DQ1 |-> <<>>, Err1 |-> <<>>,
              Q |-> <<>>, qparams |-> [scales |-> <<>>, zeros |-> <<>>]]

\* lines 497-504: the head of one iteration of the block loop
block_begin(f) ==
    LET i2 == Min(f.i1 + f.blocksize, f.columns)
        count == i2 - f.i1
    IN  [f EXCEPT !.pc = "col", !.i2 = i2, !.i = 0,
                  !.W1 = ColSlice(f.W, f.i1 + 1, i2),
                  !.DQ1 = ZeroMat(NRows(f.W), count),
                  !.Err1 = ZeroMat(NRows(f.W), count)]

\* quantize_column testing the start of a group on the column of the block
quantize_column_local_group(f) ==
    LET gcol == f.i1 + f.i                  \* 0-based global column
        lc == f.i + 1                       \* 1-based column of the block
        gs == PluginGroupsize(f.groupsize, f.columns)
        w == ColSlice(f.W1, lc, lc)
        new_group == f.groupsize # -1 /\ f.i % f.groupsize = 0
        cur_qparams ==
            IF new_group
            THEN <<get_qparams_func(
                     ColSlice(f.W, gcol + 1, Min(gcol + f.groupsize, f.columns)), gs)>>
            ELSE f.cur_qparams
        q == quantize_func(w, cur_qparams[1], gs)
        dq == dequantize_func(q, cur_qparams[1], gs)
        err1d == MatSub(w, dq)
    IN  [f EXCEPT !.i = f.i + 1,
                  !.cur_qparams = cur_qparams,
                  !.all_qparams = IF new_group THEN Append(@, cur_qparams[1]) ELSE @,
                  !.DQ1 = [r \in 1..NRows(@) |-> [c \in 1..NCols(@) |->
                              IF c = lc THEN dq[r][1] ELSE @[r][c]]],
                  !.W1 = [r \in 1..NRows(@) |-> [c \in 1..NCols(@) |->
                              IF c >= lc
                              THEN RSub(@[r][c],
                                        RMul(err1d[r][1], f.Hinv.unit[gcol + 1][f.i1 + c]))
                              ELSE @[r][c]]],
                  !.Err1 = [r \in 1..NRows(@) |-> [c \in 1..NCols(@) |->
                              IF c = lc THEN err1d[r][1] ELSE @[r][c]]]]

\* quantize_column storing the unquantized column in DQ1
quantize_column_keeps_w(f) ==
    LET gcol == f.i1 + f.i                  \* 0-based global column
        lc == f.i + 1                       \* 1-based column of the block
        gs == PluginGroupsize(f.groupsize, f.columns)
        w == ColSlice(f.W1, lc, lc)
        new_group == f.groupsize # -1 /\ gcol % f.groupsize = 0
        cur_qparams ==
            IF new_group
            THEN <<get_qparams_func(
                     ColSlice(f.W, gcol + 1, Min(gcol + f.groupsize, f.columns)), gs)>>
            ELSE f.cur_qparams
        q == quantize_func(w, cur_qparams[1], gs)
        dq == dequantize_func(q, cur_qparams[1], gs)
        err1d == MatSub(w, dq)
    IN  [f EXCEPT !.i = f.i + 1,
                  !.cur_qparams = cur_qparams,
                  !.all_qparams = IF new_group THEN Append(@, cur_qparams[1]) ELSE @,
                  !.DQ1 = [r \in 1..NRows(@) |-> [c \in 1..NCols(@) |->
                              IF c = lc THEN w[r][1] ELSE @[r][c]]],
                  !.W1 = [r \in 1..NRows(@) |-> [c \in 1..NCols(@) |->
                              IF c >= lc
                              THEN RSub(@[r][c],
                                        RMul(err1d[r][1], f.Hinv.unit[gcol + 1][f.i1 + c]))
                              ELSE @[r][c]]],
                  !.Err1 = [r \in 1..NRows(@) |-> [c \in 1..NCols(@) |->
                              IF c = lc THEN err1d[r][1] ELSE @[r][c]]]]

\* quantize_column propagating the error to the later columns of the block
\* whatever the entries of Hinv
quantize_column_uniform_feedback(f) ==
    LET gcol == f.i1 + f.i                  \* 0-based global column
        lc == f.i + 1                       \* 1-based column of the block
        gs == PluginGroupsize(f.groupsize, f.columns)
        w == ColSlice(f.W1, lc, lc)
        new_group == f.groupsize # -1 /\ gcol % f.groupsize = 0
        cur_qparams ==
            IF new_group
            THEN <<get_qparams_func(
                     ColSlice(f.W, gcol + 1, Min(gcol + f.groupsize, f.columns)), gs)>>
            ELSE f.cur_qparams
        q == quantize_func(w, cur_qparams[1], gs)
        dq == dequantize_func(q, cur_qparams[1], gs)
        err1d == MatSub(w, dq)
    IN  [f EXCEPT !.i = f.i + 1,
                  !.cur_qparams = cur_qparams,
                  !.all_qparams = IF new_group THEN Append(@, cur_qparams[1]) ELSE @,
                  !.DQ1 = [r \in 1..NRows(@) |-> [c \in 1..NCols(@) |->
                              IF c = lc THEN dq[r][1] ELSE @[r][c]]],
                  !.W1 = [r \in 1..NRows(@) |-> [c \in 1..NCols(@) |->
                              IF c >= lc THEN RSub(@[r][c], err1d[r][1]) ELSE @[r][c]]],
                  !.Err1 = [r \in 1..NRows(@) |-> [c \in 1..NCols(@) |->
                              IF c = lc THEN err1d[r][1] ELSE @[r][c]]]]

\* lines 505-528: column i of the block (0-based i, global column i1 + i).
\* Hinv1[i, j] = sqrt(d2) * unit, so (w - dq) / d * Hinv1[i, j] is
\* (w - dq) * unit[i][j]; Err1 holds err1 * d = w - dq.
quantize_column(f) ==
    LET gcol == f.i1 + f.i                  \* 0-based global column
        lc == f.i + 1                       \* 1-based column of the block
        gs == PluginGroupsize(f.groupsize, f.columns)
        w == ColSlice(f.W1, lc, lc)
        new_group == f.groupsize # -1 /\ gcol % f.groupsize = 0
        cur_qparams ==
            IF new_group
            THEN <<get_qparams_func(
                     ColSlice(f.W, gcol + 1, Min(gcol + f.groupsize, f.columns)), gs)>>
            ELSE f.cur_qparams
        q == quantize_func(w, cur_qparams[1], gs)
        dq == dequantize_func(q, cur_qparams[1], gs)
        err1d == MatSub(w, dq)
    IN  [f EXCEPT !.i = f.i + 1,
                  !.cur_qparams = cur_qparams,
                  !.all_qparams = IF new_group THEN Append(@, cur_qparams[1]) ELSE @,
                  !.DQ1 = [r \in 1..NRows(@) |-> [c \in 1..NCols(@) |->
                              IF c = lc THEN dq[r][1] ELSE @[r][c]]],
                  !.W1 = [r \in 1..NRows(@) |-> [c \in 1..NCols(@) |->
                              IF c >= lc
                              THEN RSub(@[r][c],
                                        RMul(err1d[r][1], f.Hinv.unit[gcol + 1][f.i1 + c]))
                              ELSE @[r][c]]],
                  !.Err1 = [r \in 1..NRows(@) |-> [c \in 1..NCols(@) |->
                              IF c = lc THEN err1d[r][1] ELSE @[r][c]]]]

\* block_end without the update of the columns beyond the block
block_end_no_propagation(f) ==
    [f EXCEPT !.pc = "block", !.i1 = f.i1 + f.blocksize,
              !.DQ = [r \in 1..NRows(@) |-> [c \in 1..NCols(@) |->
                         IF c > f.i1 /\ c <= f.i2 THEN f.DQ1[r][c - f.i1] ELSE @[r][c]]]]

\* lines 530-533: DQ[:, i1:i2] = DQ1; W[:, i2:] -= Err1.matmul(Hinv[i1:i2, i2:])
block_end(f) ==
    [f EXCEPT !.pc = "block", !.i1 = f.i1 + f.blocksize,
              !.DQ = [r \in 1..NRows(@) |-> [c \in 1..NCols(@) |->
                         IF c > f.i1 /\ c <= f.i2 THEN f.DQ1[r][c - f.i1] ELSE @[r][c]]],
              !.W = [r \in 1..NRows(@) |-> [c \in 1..NCols(@) |->
                         IF c > f.i2
                         THEN RSub(@[r][c],
                                   RSum([k \in 1..(f.i2 - f.i1) |->
                                           RMul(f.Err1[r][k], f.Hinv.unit[f.i1 + k][c])]))
                         ELSE @[r][c]]]]

\* lines 537-547: combine the qparams and quantize DQ with them
faster_quant_end(f) ==
    LET gs == PluginGroupsize(f.groupsize, f.columns)
        qlist == IF f.all_qparams = <<>> THEN <<f.cur_qparams[1]>> ELSE f.all_qparams
        all_qparams == combine_qparams_list_func(qlist)
    IN  [f EXCEPT !.pc = "done", !.all_qparams = qlist,
                  !.qparams = all_qparams,
                  !.Q = quantize_func(f.DQ, all_qparams, gs)]

FQBlock ==
    /\ fq.pc = "block"
    /\ fq.i1 < fq.columns
    /\ fq' = block_begin(fq)
    /\ UNCHANGED <<qmode, gptq_done, new_state_dict, model, beside_runner, env, running, stack,
                   outcome, hist>>

FQColumn ==
    /\ fq.pc = "col"
    /\ fq.i < fq.i2 - fq.i1
    /\ fq' = quantize_column(fq)
    /\ UNCHANGED <<qmode, gptq_done, new_state_dict, model, beside_runner, env, running, stack,
                   outcome, hist>>

FQBlockEnd ==
    /\ fq.pc = "col"
    /\ fq.i = fq.i2 - fq.i1
    /\ fq' = block_end(fq)
    /\ UNCHANGED <<qmode, gptq_done, new_state_dict, model, beside_runner, env, running, stack,
                   outcome, hist>>

FQFinish ==
    /\ fq.pc = "block"
    /\ fq.i1 >= fq.columns
    /\ fq' = faster_quant_end(fq)
    /\ UNCHANGED <<qmode, gptq_done, new_state_dict, model, beside_runner, env, running, stack,
                   outcome, hist>>


(***************************************************************************)
(* Names.  A name is the sequence of its tokens, "." included, so that     *)
(* splitting, joining and substring search are computed, not assumed.      *)
(***************************************************************************)
IsSubstring(m, s) ==
    \E i \in 1..(Len(s) - Len(m) + 1) : SubSeq(s, i, i + Len(m) - 1) = m

\* ".".join(name.split(".")[:-1])
LastDot(name) ==
    IF \E i \in 1..Len(name) : name[i] = "."
    THEN CHOOSE i \in 1..Len(name) :
            name[i] = "." /\ \A j \in (i + 1)..Len(name) : name[j] # "."
    ELSE 0
ModFqn(name) == IF LastDot(name) = 0 THEN <<>> ELSE SubSeq(name, 1, LastDot(name) - 1)

\* dict operations
DictPop(d, key) == [k \in DOMAIN d \ {key} |-> d[k]]
DictSet(d, key, value) ==
    [k \in DOMAIN d \cup {key} |-> IF k = key THEN value ELSE d[k]]
RECURSIVE DictSetAll(_, _)
DictSetAll(d, items) ==
    IF items = <<>> THEN d
    ELSE DictSetAll(DictSet(d, items[1][1], items[1][2]), Tail(items))

(***************************************************************************)
(* Values flowing through the graph: a MultiInput (one value per           *)
(* calibration sample) or a plain tensor.                                  *)
(***************************************************************************)
MultiInput(inputs) == [multi |-> TRUE, values |-> inputs]
Plain(t) == [multi |-> FALSE, values |-> <<t>>]
\* MultiInput.__getitem__(slice(None, n)); a plain tensor's [:n] keeps rows
SliceTo(v, n) ==
    IF v.multi THEN MultiInput(SubSeq(v.values, 1, Min(n, Len(v.values))))
    ELSE Plain(SubSeq(v.values[1], 1, Min(n, Len(v.values[1]))))

relu(x) == [r \in 1..NRows(x) |-> [c \in 1..NCols(x) |->
               IF RLess(x[r][c], RZero) THEN RZero ELSE x[r][c]]]
round(x) == [r \in 1..NRows(x) |-> [c \in 1..NCols(x) |-> R(RRound(x[r][c]))]]
\* F.linear(x, weight, bias) = x weight^T + bias
linear(x, weight, bias) ==
    LET y == MatMul(x, Transpose(weight))
    IN  IF bias = <<>> THEN y
        ELSE [r \in 1..NRows(y) |-> [c \in 1..NCols(y) |-> RAdd(y[r][c], bias[1][1][c])]]

\* super().call_function(target, cur_args, cur_kwargs): the operation itself
apply_target(target, x, weight, bias) ==
    IF target = "linear" THEN linear(x, weight, bias)
    ELSE IF target = "round" THEN round(x)
    ELSE relu(x)

(***************************************************************************)
(* The model under quantization and the calibration inputs                 *)
(***************************************************************************)
MaxNodes == 3
MaxSamples == 3
MaxRuns == 1

WB == IntMat(<< <<1, 2>>, <<-3, 1>> >>)
BB == IntMat(<< <<1, -1>> >>)
WC == IntMat(<< <<2, -1, 3>>, <<1, 1, -2>> >>)
KB == IntMat(<< <<1, 0>>, <<1, 1>>, <<0, 1>> >>)

\* the kinds of call_function nodes, in the order they follow one another:
\* l3 (a linear layer, 3 -> 2 features), round, l2 (a linear layer with bias,
\* 2 -> 2), a linear whose weight is the attention cache (a buffer, 2 -> 3),
\* relu of a buffer, round
NodeKinds == <<"l3", "round", "l2", "attn", "relu_buf", "round">>
KindAt(offset, j) == NodeKinds[((offset + j - 1) % Len(NodeKinds)) + 1]
Starts == {0, 1, 2}

LayerName(j, leaf) == <<"layers", ".", ToString(j), ".", leaf>>
CacheName == <<"layers", ".", "kv_cache", ".", "k_cache">>

\* the node before j whose result is a MultiInput (0: the placeholder)
RECURSIVE PrevMulti(_, _)
PrevMulti(offset, j) ==
    IF j = 0 THEN 0
    ELSE IF KindAt(offset, j) = "relu_buf" THEN PrevMulti(offset, j - 1)
    ELSE j

GraphNode(offset, j) ==
    LET kind == KindAt(offset, j)
        input == PrevMulti(offset, j - 1)
    IN  CASE kind = "l2" ->
               [target |-> "linear", input |-> input,
                weight |-> LayerName(j, "weight"), bias |-> <<LayerName(j, "bias")>>]
          [] kind = "l3" ->
               [target |-> "linear", input |-> input,
                weight |-> LayerName(j, "weight"), bias |-> <<>>]
          [] kind = "attn" ->
               [target |-> "linear", input |-> input,
                weight |-> CacheName, bias |-> <<>>]
          [] kind = "round" ->
               [target |-> "round", input |-> input, weight |-> <<>>, bias |-> <<>>]
          [] OTHER ->
               [target |-> "relu", input |-> -1, weight |-> <<>>, bias |-> <<>>]

Graph(offset, len) == [j \in 1..len |-> GraphNode(offset, j)]

\* dict(model.named_parameters())
NamedParameters(offset, len) ==
    LET names == {LayerName(j, "weight") :
                     j \in {i \in 1..len : KindAt(offset, i) \in {"l2", "l3"}}}
                 \cup {LayerName(j, "bias") :
                     j \in {i \in 1..len : KindAt(offset, i) = "l2"}}
    IN  [n \in names |->
            LET j == CHOOSE i \in 1..len : SubSeq(n, 1, 3) = SubSeq(LayerName(i, "x"), 1, 3)
                kind == KindAt(offset, j)
            IN  IF n[5] = "bias" THEN BB
                ELSE IF kind = "l2" THEN WB
                ELSE WC]

\* the registered buffers: the attention cache
NamedBuffers == [n \in {CacheName} |-> KB]

\* model.state_dict(): the parameters and the buffers
StateDict(m) ==
    [n \in DOMAIN m.params \cup DOMAIN m.buffers |->
        IF n \in DOMAIN m.params THEN m.params[n] ELSE m.buffers[n]]

\* calibration sample k: a 2-D activation, tokens x features
Sample(k, features) ==
    LET row1 == <<(k % 3) - 1, 1, k % 2>>
        row2 == <<(k + 1) % 2, k % 2, 1 - (k \div 4)>>
    IN  IntMat(<<SubSeq(row1, 1, features), SubSeq(row2, 1, features)>>)
InFeatures(offset) == IF KindAt(offset, 1) = "l3" THEN NCols(WC) ELSE NCols(WB)

\* blocksize, percdamp, groupsize of the runner, and the padding policy the
\* plugin's skip_layer_func is curried with
Settings ==
    { [blocksize |-> 128, percdamp |-> <<1, 2>>, groupsize |-> -1, padding_allowed |-> TRUE],
      [blocksize |-> 1,   percdamp |-> <<1, 2>>, groupsize |-> 1,  padding_allowed |-> TRUE],
      [blocksize |-> 2,   percdamp |-> <<0, 1>>,  groupsize |-> 1,  padding_allowed |-> FALSE],
      [blocksize |-> 2,   percdamp |-> <<1, 2>>, groupsize |-> 2,  padding_allowed |-> FALSE],
      [blocksize |-> 1,   percdamp |-> <<0, 1>>,  groupsize |-> 2,  padding_allowed |-> FALSE] }

\* a model of three nodes (l3, round, l2) whose first layer has two equal
\* rows: its two outputs are equal for every sample, so the Hessian of the
\* second layer is singular, and without dampening its factorization fails
WE == IntMat(<< <<1, 2, -1>>, <<1, 2, -1>> >>)
TwinRowModels ==
    { [graph |-> Graph(0, 3),
       params |-> [NamedParameters(0, 3) EXCEPT ![LayerName(1, "weight")] = WE],
       buffers |-> NamedBuffers,
       inputs |-> MultiInput([k \in 1..3 |-> Sample(k, InFeatures(0))]),
       blocksize |-> s.blocksize, percdamp |-> s.percdamp,
       groupsize |-> s.groupsize, padding_allowed |-> s.padding_allowed] :
      s \in {t \in Settings : t.percdamp = <<0, 1>>} }

Models ==
    { [graph |-> Graph(o, len), params |-> NamedParameters(o, len),
       buffers |-> NamedBuffers,
       inputs |-> MultiInput([k \in 1..n |-> Sample(k, InFeatures(o))]),
       blocksize |-> s.blocksize, percdamp |-> s.percdamp,
       groupsize |-> s.groupsize, padding_allowed |-> s.padding_allowed] :
      o \in Starts, len \in 1..MaxNodes, n \in 1..MaxSamples, s \in Settings }
    \cup TwinRowModels

\* self.debug
debug == TRUE

\* _check_linear_int4_k(k, groupsize); Python's k % -1 is 0
check_linear_int4_k(k, groupsize) == IF groupsize = -1 THEN TRUE ELSE k % groupsize = 0

\* skip_layer_func of Int8DynActInt4WeightGPTQQuantizer
skip_layer_func(linear_weight, m) ==
    ~(check_linear_int4_k(NCols(linear_weight), m.groupsize) \/ m.padding_allowed)

\* find_multiple(n, k) for one k
find_multiple(n, k) ==
    IF k = -1 \/ n % k = 0 THEN n ELSE n + k - (n % k)

\* make_names_and_values_dict_func(q, qparams): the weight padded to a
\* multiple of the group size, and the qparams
make_names_and_values_dict_func(q, qparams, groupsize) ==
    LET k == NCols(q)
        new_k == find_multiple(k, groupsize)
        final_q == [r \in 1..NRows(q) |-> [c \in 1..new_k |->
                       IF c <= k THEN q[r][c] ELSE RZero]]
    IN  << <<"weight", final_q>>, <<"scales", qparams.scales>>, <<"zeros", qparams.zeros>> >>


(***************************************************************************)
(* GenericGPTQRunner                                                       *)
(***************************************************************************)
no_outcome == [call |-> "none", status |-> "ok"]

\* lines 228-257: the runner after __init__
Init ==
    /\ model \in Models
    /\ qmode = "unset"
    /\ gptq_done = FALSE
    /\ new_state_dict = StateDict(model)
    /\ env = <<>>
    /\ running = FALSE
    /\ stack = <<>>
    /\ fq = fq_idle
    /\ outcome = no_outcome
    /\ hist = [runs |-> 0, nodes |-> <<>>, printed |-> <<>>]
    /\ quantizer = quantizer_idle
    /\ multi_inputs = multi_inputs_none
    /\ recorder = recorder_idle

\* lines 259-294: configure_quantization_mode; the caller may pass None
configure_quantization_mode ==
    /\ ~running
    /\ \E f \in {"none", "set"} : qmode' = f
    /\ outcome' = [call |-> "configure_quantization_mode", status |-> "ok"]
    /\ UNCHANGED <<gptq_done, new_state_dict, model, beside_runner, env, running, stack, fq, hist>>

\* run() setting gptq_done before it tests the configuration
run_unconfigured_marks_done ==
    /\ ~running
    /\ qmode # "set"
    /\ gptq_done' = TRUE
    /\ outcome' = [call |-> "run",
                   status |-> IF qmode = "unset" THEN "AttributeError" ELSE "AssertionError"]
    /\ UNCHANGED <<qmode, new_state_dict, model, beside_runner, env, running, stack, fq, hist>>

\* lines 296-299 failing: the attribute was never set (AttributeError) or
\* is None (the assertion)
run_unconfigured ==
    /\ ~running
    /\ qmode # "set"
    /\ outcome' = [call |-> "run",
                   status |-> IF qmode = "unset" THEN "AttributeError" ELSE "AssertionError"]
    /\ UNCHANGED <<qmode, gptq_done, new_state_dict, model, beside_runner, env, running, stack, fq, hist>>

\* lines 296-301: run() up to the start of the graph walk
run_begin ==
    /\ ~running
    /\ qmode = "set"
    /\ hist.runs < MaxRuns
    /\ gptq_done' = TRUE
    /\ running' = TRUE
    /\ env' = <<>>
    /\ hist' = [runs |-> hist.runs + 1, printed |-> hist.printed,
                nodes |-> [j \in 1..Len(model.graph) |->
                             [accum |-> 0, fq |-> 0, updates |-> 0, seen |-> 0,
                              calls |-> 0, depth |-> 0,
                              Q |-> <<>>, DQ |-> <<>>,
                              qparams |-> [scales |-> <<>>, zeros |-> <<>>]]]]
    /\ outcome' = [call |-> "run", status |-> "running"]
    /\ UNCHANGED <<qmode, new_state_dict, model, beside_runner, stack, fq>>

\* lines 303-315: get_quantized_state_dict
kv_cache_marker == <<"kv_cache">>
\* strip_kv_cache with the test inverted
strip_all_but_kv_cache(d) ==
    [k \in {n \in DOMAIN d : IsSubstring(kv_cache_marker, n)} |-> d[k]]

strip_kv_cache(d) ==
    [k \in {n \in DOMAIN d : ~IsSubstring(kv_cache_marker, n)} |-> d[k]]

\* get_quantized_state_dict without the assertion on gptq_done
get_quantized_state_dict_unchecked ==
    /\ ~running
    /\ new_state_dict' = strip_kv_cache(new_state_dict)
    /\ outcome' = [call |-> "get_quantized_state_dict", status |-> "ok"]
    /\ UNCHANGED <<qmode, gptq_done, model, beside_runner, env, running, stack, fq, hist>>

get_quantized_state_dict ==
    /\ ~running
    /\ IF gptq_done
       THEN /\ new_state_dict' = strip_kv_cache(new_state_dict)
            /\ outcome' = [call |-> "get_quantized_state_dict", status |-> "ok"]
       ELSE /\ outcome' = [call |-> "get_quantized_state_dict", status |-> "AssertionError"]
            /\ UNCHANGED new_state_dict
    /\ UNCHANGED <<qmode, gptq_done, model, beside_runner, env, running, stack, fq, hist>>

(***************************************************************************)
(* call_function(target, args, kwargs, skip_quant)                         *)
(***************************************************************************)
\* quantize_linear without the skip_layer_func test
quantize_linear_no_skip_layer(target, weight, skip_quant) ==
    /\ target = "linear"
    /\ weight.id \in DOMAIN model.params
    /\ ~skip_quant

\* quantize_linear without the skip_quant test
quantize_linear_no_skip_quant(target, weight, skip_quant) ==
    /\ target = "linear"
    /\ weight.id \in DOMAIN model.params
    /\ ~skip_layer_func(weight.data, model)

\* lines 353-360
quantize_linear(target, weight, skip_quant) ==
    /\ target = "linear"
    /\ weight.id \in DOMAIN model.params
    /\ ~skip_quant
    /\ ~skip_layer_func(weight.data, model)

\* lines 317-364: entry of call_function, up to the loop over the samples
Frame(node, target, x, weight, bias, skip_quant, ret) ==
    [node |-> node, target |-> target, x |-> x, weight |-> weight, bias |-> bias,
     skip_quant |-> skip_quant, ret |-> ret,
     quantize_linear |-> quantize_linear(target, weight, skip_quant),
     pc |-> "loop", k |-> 1,
     H |-> IF target = "linear"
           THEN ZeroMat(NCols(weight.data), NCols(weight.data)) ELSE <<>>,
     total_batches |-> 0, outputs |-> <<>>,
     W |-> <<>>, Q |-> <<>>, DQ |-> <<>>,
     qparams |-> [scales |-> <<>>, zeros |-> <<>>],
     new_out |-> MultiInput(<<>>), old_out |-> MultiInput(<<>>)]

Top == stack[Len(stack)]
SetTop(f) == [stack EXCEPT ![Len(stack)] = f]

\* the arguments the interpreter resolves for node j
NodeFrame(j) ==
    LET nd == model.graph[j]
        x == IF nd.input = -1 THEN Plain(model.buffers[CacheName])
             ELSE IF nd.input = 0 THEN model.inputs
             ELSE env[nd.input]
        weight == IF nd.target = "linear"
                  THEN [id |-> nd.weight, data |-> StateDict(model)[nd.weight]]
                  ELSE [id |-> <<>>, data |-> <<>>]
        bias == IF nd.bias = <<>> THEN <<>>
                ELSE <<[id |-> nd.bias[1], data |-> model.params[nd.bias[1]]]>>
    IN  Frame(j, nd.target, x, weight, bias, FALSE, "env")

Bump(h, node, field) == [h EXCEPT !.nodes[node][field] = @ + 1]
NoteCall(h, node, depth) ==
    [h EXCEPT !.nodes[node].calls = @ + 1,
              !.nodes[node].depth = Max(@, depth)]

\* fx.Interpreter.run: the next call_function node of the graph
run_node ==
    /\ running
    /\ stack = <<>>
    /\ Len(env) < Len(model.graph)
    /\ stack' = <<NodeFrame(Len(env) + 1)>>
    /\ hist' = NoteCall(hist, Len(env) + 1, 1)
    /\ UNCHANGED <<qmode, gptq_done, new_state_dict, model, beside_runner, env, running, fq, outcome>>

\* run() returns: every node has been executed
run_end ==
    /\ running
    /\ stack = <<>>
    /\ Len(env) = Len(model.graph)
    /\ running' = FALSE
    /\ outcome' = [call |-> "run", status |-> "ok"]
    /\ UNCHANGED <<qmode, gptq_done, new_state_dict, model, beside_runner, env, stack, fq, hist>>

\* hessian_update without H *= total_batches / (total_batches + n)
hessian_update_no_rescale(H, total_batches, x) ==
    LET tb == total_batches + 1
    IN  [H |-> Tensor(MatAdd(H, MatScale(RNorm(2, tb), MatMul(Transpose(x), x)))),
         total_batches |-> tb]

\* lines 373-383: one sample into the running average
hessian_update(H, total_batches, x) ==
    LET n == 1          \* len(shape) == 2
        tb == total_batches + n
        H1 == MatScale(<<total_batches, tb>>, H)
    IN  [H |-> Tensor(MatAdd(H1, MatScale(RNorm(2, tb), MatMul(Transpose(x), x)))),
         total_batches |-> tb]

\* lines 366-392: one iteration of the loop over transposed_args
loop_body(f) ==
    LET cur == IF f.x.multi THEN f.x.values[f.k] ELSE f.x.values[1]
    IN  IF f.quantize_linear
        THEN LET u == hessian_update(f.H, f.total_batches, cur)
             IN  [f EXCEPT !.k = f.k + 1, !.H = u.H, !.total_batches = u.total_batches]
        ELSE [f EXCEPT !.k = f.k + 1,
                       !.outputs = Append(@, apply_target(f.target, cur, f.weight.data,
                                              [i \in 1..Len(f.bias) |-> f.bias[i].data]))]

call_function_loop ==
    /\ stack # <<>>
    /\ Top.pc = "loop"
    /\ Top.k <= Len(Top.x.values)
    /\ stack' = SetTop(loop_body(Top))
    /\ hist' = IF Top.quantize_linear
               THEN [Bump(hist, Top.node, "accum") EXCEPT !.nodes[Top.node].seen = Top.k]
               ELSE hist
    /\ UNCHANGED <<qmode, gptq_done, new_state_dict, model, beside_runner, env, running, fq, outcome>>

\* hand `value` to the caller of the innermost call_function
Return(value) ==
    IF Len(stack) = 1
    THEN /\ env' = Append(env, value)
         /\ stack' = <<>>
    ELSE LET caller == stack[Len(stack) - 1]
             resumed ==
                 CASE Top.ret = "new_out" ->
                        [caller EXCEPT !.new_out = value,
                                       !.pc = IF debug THEN "old_out" ELSE "return"]
                   [] Top.ret = "old_out" ->
                        [caller EXCEPT !.old_out = value, !.pc = "old_q_out"]
                   [] OTHER -> [caller EXCEPT !.pc = "return"]
         IN  /\ stack' = [SubSeq(stack, 1, Len(stack) - 1) EXCEPT ![Len(stack) - 1] = resumed]
             /\ UNCHANGED env

\* line 467: a node that is not quantized returns its outputs
call_function_return ==
    /\ stack # <<>>
    /\ Top.pc = "loop"
    /\ Top.k > Len(Top.x.values)
    /\ ~Top.quantize_linear
    /\ Return(IF Top.x.multi THEN MultiInput(Top.outputs) ELSE Plain(Top.outputs[1]))
    /\ UNCHANGED <<qmode, gptq_done, new_state_dict, model, beside_runner, running, fq, outcome, hist>>

\* lines 394-399: W = args[1]; Q, DQ, qparams = self.faster_quant(H, W)
call_faster_quant ==
    /\ stack # <<>>
    /\ Top.pc = "loop"
    /\ Top.k > Len(Top.x.values)
    /\ Top.quantize_linear
    /\ fq' = faster_quant_begin(Top.H, Top.weight.data, model.blocksize,
                                model.percdamp, model.groupsize)
    /\ stack' = SetTop([Top EXCEPT !.pc = "faster_quant"])
    /\ hist' = Bump(hist, Top.node, "fq")
    /\ UNCHANGED <<qmode, gptq_done, new_state_dict, model, beside_runner, env, running, outcome>>

\* faster_quant_raises after the weight entry of the layer was deleted
faster_quant_raises_after_pop ==
    /\ fq.pc = "error"
    /\ stack # <<>>
    /\ stack' = <<>>
    /\ running' = FALSE
    /\ fq' = fq_idle
    /\ outcome' = [call |-> "run", status |-> fq.error, args |-> fq.args]
    /\ new_state_dict' = DictPop(new_state_dict, Top.weight.id)
    /\ UNCHANGED <<qmode, gptq_done, model, beside_runner, env, hist>>

\* an exception of faster_quant leaves call_function and run()
faster_quant_raises ==
    /\ fq.pc = "error"
    /\ stack # <<>>
    /\ stack' = <<>>
    /\ running' = FALSE
    /\ fq' = fq_idle
    /\ outcome' = [call |-> "run", status |-> fq.error, args |-> fq.args]
    /\ UNCHANGED <<qmode, gptq_done, new_state_dict, model, beside_runner, env, hist>>

\* update_state_dict without the loop that inserts the plugin's entries
update_state_dict_pop_only(d, name, nargs, bias, Q, qparams) ==
    LET mod_fqn == ModFqn(name)
        d1 == IF mod_fqn \o <<".", "weight">> \in DOMAIN d
              THEN DictPop(d, mod_fqn \o <<".", "weight">>) ELSE d
    IN  IF nargs > 2 THEN DictSet(d1, mod_fqn \o <<".", "bias">>, bias[1].data) ELSE d1

\* update_state_dict storing the plugin's entries under their bare names
update_state_dict_bare_names(d, name, nargs, bias, Q, qparams) ==
    LET mod_fqn == ModFqn(name)
        names_and_values_dict == make_names_and_values_dict_func(Q, qparams, model.groupsize)
        d1 == IF mod_fqn \o <<".", "weight">> \in DOMAIN d
              THEN DictPop(d, mod_fqn \o <<".", "weight">>) ELSE d
        d2 == IF nargs > 2 THEN DictSet(d1, mod_fqn \o <<".", "bias">>, bias[1].data) ELSE d1
    IN  DictSetAll(d2, [i \in 1..Len(names_and_values_dict) |->
                          <<<<names_and_values_dict[i][1]>>, names_and_values_dict[i][2]>>])

\* lines 403-411: the state dict entries of the quantized layer
update_state_dict(d, name, nargs, bias, Q, qparams) ==
    LET mod_fqn == ModFqn(name)
        names_and_values_dict == make_names_and_values_dict_func(Q, qparams, model.groupsize)
        d1 == IF mod_fqn \o <<".", "weight">> \in DOMAIN d
              THEN DictPop(d, mod_fqn \o <<".", "weight">>) ELSE d
        d2 == IF nargs > 2 THEN DictSet(d1, mod_fqn \o <<".", "bias">>, bias[1].data) ELSE d1
    IN  DictSetAll(d2, [i \in 1..Len(names_and_values_dict) |->
                          <<mod_fqn \o <<".", names_and_values_dict[i][1]>>,
                            names_and_values_dict[i][2]>>])

\* lines 399-411: faster_quant has returned
call_function_update ==
    /\ stack # <<>>
    /\ Top.pc = "faster_quant"
    /\ fq.pc = "done"
    /\ new_state_dict' = update_state_dict(new_state_dict, Top.weight.id,
                                           2 + Len(Top.bias), Top.bias, fq.Q, fq.qparams)
    /\ stack' = SetTop([Top EXCEPT !.pc = "new_out", !.Q = fq.Q, !.DQ = fq.DQ,
                                   !.qparams = fq.qparams, !.W = fq.W])
    /\ fq' = fq_idle
    /\ hist' = [Bump(hist, Top.node, "updates") EXCEPT
                   !.printed = Append(@, ModFqn(Top.weight.id)),
                   !.nodes[Top.node].Q = fq.Q,
                   !.nodes[Top.node].DQ = fq.DQ,
                   !.nodes[Top.node].qparams = fq.qparams]
    /\ UNCHANGED <<qmode, gptq_done, model, beside_runner, env, running, outcome>>

Reenter(x, weight, ret) ==
    /\ stack' = Append(SetTop([Top EXCEPT !.pc = "called"]),
                       Frame(Top.node, Top.target, x, weight, Top.bias, TRUE, ret))
    /\ hist' = NoteCall(hist, Top.node, Len(stack) + 1)

\* call_new_out handing the original weight to the re-entrant call
call_new_out_original_weight ==
    /\ stack # <<>>
    /\ Top.pc = "new_out"
    /\ Reenter(Top.x, Top.weight, "new_out")
    /\ UNCHANGED <<qmode, gptq_done, new_state_dict, model, beside_runner, env, running, fq, outcome>>

\* lines 414-416: run linear with the new weight
call_new_out ==
    /\ stack # <<>>
    /\ Top.pc = "new_out"
    /\ Reenter(Top.x, [id |-> <<"DQ">>, data |-> Top.DQ], "new_out")
    /\ UNCHANGED <<qmode, gptq_done, new_state_dict, model, beside_runner, env, running, fq, outcome>>

\* lines 418-421 (debug): the first two samples with the original weight
call_old_out ==
    /\ stack # <<>>
    /\ Top.pc = "old_out"
    /\ Reenter(SliceTo(Top.x, 2), Top.weight, "old_out")
    /\ UNCHANGED <<qmode, gptq_done, new_state_dict, model, beside_runner, env, running, fq, outcome>>

\* lines 430-454 (debug): plain quantization of W for comparison; W is the
\* tensor faster_quant worked on
call_old_q_out ==
    /\ stack # <<>>
    /\ Top.pc = "old_q_out"
    /\ LET gs == PluginGroupsize(model.groupsize, NCols(Top.W))
           qparams2 == get_qparams_func(Top.W, gs)
           Q2 == quantize_func(Top.W, qparams2, gs)
           DQ2 == dequantize_func(Q2, qparams2, gs)
       IN  Reenter(SliceTo(Top.x, 2), [id |-> <<"DQ2">>, data |-> DQ2], "old_q_out")
    /\ UNCHANGED <<qmode, gptq_done, new_state_dict, model, beside_runner, env, running, fq, outcome>>

\* line 465: return new_out
call_function_return_new_out ==
    /\ stack # <<>>
    /\ Top.pc = "return"
    /\ Return(Top.new_out)
    /\ UNCHANGED <<qmode, gptq_done, new_state_dict, model, beside_runner, running, fq, outcome, hist>>

Next ==
    \/ configure_quantization_mode
    \/ run_unconfigured
    \/ run_begin
    \/ get_quantized_state_dict
    \/ run_node
    \/ run_end
    \/ call_function_loop
    \/ call_function_return
    \/ call_faster_quant
    \/ FQBlock
    \/ FQColumn
    \/ FQBlockEnd
    \/ FQFinish
    \/ faster_quant_raises
    \/ call_function_update
    \/ call_new_out
    \/ call_old_out
    \/ call_old_q_out
    \/ call_function_return_new_out

Spec == Init /\ [][Next]_vars

(***************************************************************************)
(* faster_quant on its own: a configured runner whose faster_quant is      *)
(* called with the Hessian of a calibration set and a 4-column weight      *)
(***************************************************************************)
MaxBlocksize == 4

WD == IntMat(<< <<3, 1, -2, 1>>, <<-1, 2, 2, -3>> >>)
X1 == IntMat(<< <<1, 0, -1, 1>>, <<0, 1, 1, 0>> >>)
X2 == IntMat(<< <<1, 1, 0, -1>>, <<-1, 0, 1, 1>> >>)
X3 == IntMat(<< <<0, 1, 0, 1>>, <<1, -1, 1, 0>> >>)
X4 == IntMat(<< <<1, 1, 0, 1>>, <<0, 1, 0, -1>> >>)
X5 == IntMat(<< <<1, 0, 0, 2>>, <<1, -1, 0, 0>> >>)

X6 == IntMat(<< <<1, 1, 0, 0>>, <<0, 1, 1, 0>> >>)
X7 == IntMat(<< <<1, 0, -1, 0>>, <<1, -1, 0, 0>> >>)
XI1 == IntMat(<< <<1, 0, 0, 0>>, <<0, 1, 0, 0>> >>)
XI2 == IntMat(<< <<0, 0, 1, 0>>, <<0, 0, 0, 1>> >>)

\* three samples of full rank; one sample (rank 2, singular without
\* dampening); two samples whose third feature is always 0 (a dead column);
\* two samples whose fourth feature is always 0 (a dead column under the
\* largest weight of a row); two samples whose Hessian is the identity
CalibrationSets ==
    { <<X1, X2, X3>>, <<X1>>, <<X4, X5>>, <<X4, X5, X4>>, <<X6, X7>>, <<XI1, XI2>> }
Groupsizes == {-1, 1, 2, 4}
Percdamps == { <<0, 1>>, <<1, 2>> }

\* the Hessian call_function accumulates over the samples xs
RECURSIVE Accumulate(_, _)
Accumulate(xs, columns) ==
    IF xs = <<>> THEN [H |-> ZeroMat(columns, columns), total_batches |-> 0]
    ELSE LET a == Accumulate(SubSeq(xs, 1, Len(xs) - 1), columns)
         IN  hessian_update(a.H, a.total_batches, xs[Len(xs)])

InitFQ ==
    /\ qmode = "set"
    /\ gptq_done = FALSE
    /\ env = <<>>
    /\ running = FALSE
    /\ stack = <<>>
    /\ outcome = no_outcome
    /\ quantizer = quantizer_idle
    /\ multi_inputs = multi_inputs_none
    /\ recorder = recorder_idle
    /\ \E xs \in CalibrationSets, B \in 1..MaxBlocksize, g \in Groupsizes, p \in Percdamps :
          /\ model = [graph |-> <<>>, params |-> <<>>, buffers |-> NamedBuffers,
                      inputs |-> MultiInput(xs),
                      blocksize |-> B, percdamp |-> p, groupsize |-> g,
                      padding_allowed |-> TRUE]
          /\ new_state_dict = NamedBuffers
          /\ hist = [runs |-> 0, nodes |-> <<>>, printed |-> <<>>,
                     H |-> Accumulate(xs, NCols(WD)).H, W |-> WD]
          /\ fq = faster_quant_begin(Accumulate(xs, NCols(WD)).H, WD, B, p, g)

NextFQ ==
    \/ FQBlock
    \/ FQColumn
    \/ FQBlockEnd
    \/ FQFinish

SpecFQ == InitFQ /\ [][NextFQ]_vars

(***************************************************************************)
(* Direct evaluation of the traced graph, and the runner's bookkeeping     *)
(***************************************************************************)
Samples == 1..Len(model.inputs.values)

\* the output of node j on sample k when the graph is evaluated node by node
\* with the weights wts (name -> tensor)
RECURSIVE DirectEval(_, _, _)
DirectEval(j, k, wts) ==
    LET nd == model.graph[j]
        x == IF nd.input = -1 THEN model.buffers[CacheName]
             ELSE IF nd.input = 0 THEN model.inputs.values[k]
             ELSE DirectEval(nd.input, k, wts)
    IN  apply_target(nd.target, x,
                     IF nd.target = "linear" THEN wts[nd.weight] ELSE <<>>,
                     IF nd.bias = <<>> THEN <<>> ELSE <<wts[nd.bias[1]]>>)

\* what the runner handed to the nodes downstream of node j, for sample k
NodeValue(j, k) == IF env[j].multi THEN env[j].values[k] ELSE env[j].values[1]

\* node j is a linear whose weight is a parameter
IsParamLinear(j) ==
    /\ model.graph[j].target = "linear"
    /\ model.graph[j].weight \in DOMAIN model.params
\* node j is a quantization target / a linear layer the policy skips
IsTarget(j) == IsParamLinear(j) /\ ~skip_layer_func(model.params[model.graph[j].weight], model)
IsSkipped(j) == IsParamLinear(j) /\ skip_layer_func(model.params[model.graph[j].weight], model)

\* the weights with the weight of every layer quantized so far replaced by
\* the DQ faster_quant returned for it
ReconstructedWeights ==
    [n \in DOMAIN StateDict(model) |->
        IF \E j \in 1..Len(hist.nodes) :
              IsParamLinear(j) /\ model.graph[j].weight = n /\ hist.nodes[j].updates > 0
        THEN hist.nodes[CHOOSE j \in 1..Len(hist.nodes) :
                 IsParamLinear(j) /\ model.graph[j].weight = n].DQ
        ELSE StateDict(model)[n]]

\* run() has returned normally
RunCompleted == ~running /\ hist.runs > 0 /\ Len(env) = Len(model.graph)

(***************************************************************************)
(* C1 as stated: for every node and every calibration sample, the value    *)
(* handed to downstream nodes equals the direct evaluation of the graph    *)
(* with the original weights.                                              *)
(***************************************************************************)
C1_OriginalWeights ==
    \A j \in 1..Len(env) : \A k \in Samples :
        NodeValue(j, k) = DirectEval(j, k, StateDict(model))

(***************************************************************************)
(* C1 amended: for every node and every calibration sample, the value      *)
(* handed to downstream nodes equals the direct evaluation of the graph in *)
(* which the weight of every quantization target is replaced by the        *)
(* dequantized reconstruction DQ that faster_quant returned for it; a      *)
(* quantization target returns the output computed with DQ.                *)
(***************************************************************************)
C1_ReconstructedWeights ==
    \A j \in 1..Len(env) : \A k \in Samples :
        NodeValue(j, k) = DirectEval(j, k, ReconstructedWeights)

\* a quantization target has returned, its DQ differs from its weight, and a
\* node downstream of it has been evaluated
C1_Witness ==
    \E j \in 1..Len(env) :
        /\ IsTarget(j)
        /\ hist.nodes[j].DQ # model.params[model.graph[j].weight]
        /\ \E k \in Samples : NodeValue(j, k) # DirectEval(j, k, StateDict(model))
        /\ \E j2 \in (j + 1)..Len(env) : model.graph[j2].input = j

(***************************************************************************)
(* C2: after run() completes, for every quantization target with module    *)
(* name M the mapping does not hold the original weight under M.weight, it *)
(* holds M.<name> -> value for every pair the plugin's                     *)
(* make_names_and_values_dict_func(Q, qparams) returned for the layer, and *)
(* M.bias -> the bias when the node had a bias argument.                   *)
(***************************************************************************)
C2_MappingUpdated ==
    RunCompleted =>
        \A j \in 1..Len(model.graph) :
            IsTarget(j) =>
                LET nd == model.graph[j]
                    M == ModFqn(nd.weight)
                    h == hist.nodes[j]
                    named == make_names_and_values_dict_func(h.Q, h.qparams, model.groupsize)
                IN  /\ h.updates = 1
                    /\ \/ M \o <<".", "weight">> \notin DOMAIN new_state_dict
                       \/ new_state_dict[M \o <<".", "weight">>] # model.params[nd.weight]
                    /\ \A i \in 1..Len(named) :
                          /\ M \o <<".", named[i][1]>> \in DOMAIN new_state_dict
                          /\ new_state_dict[M \o <<".", named[i][1]>>] = named[i][2]
                    /\ nd.bias # <<>> =>
                          /\ M \o <<".", "bias">> \in DOMAIN new_state_dict
                          /\ new_state_dict[M \o <<".", "bias">>] = model.params[nd.bias[1]]

\* run() has completed on a graph with a quantized layer that has a bias
C2_Witness ==
    /\ RunCompleted
    /\ \E j \in 1..Len(model.graph) :
          /\ IsTarget(j)
          /\ model.graph[j].bias # <<>>
          /\ ModFqn(model.graph[j].weight) \o <<".", "scales">> \in DOMAIN new_state_dict

(***************************************************************************)
(* C3: the mapping get_quantized_state_dict returns has no key containing  *)
(* the marker "kv_cache", and every other key of the runner's mapping is   *)
(* retained with its value.                                                *)
(***************************************************************************)
C3_Action ==
    (outcome'.call = "get_quantized_state_dict" /\ outcome'.status = "ok"
        /\ (outcome' # outcome \/ new_state_dict' # new_state_dict))
    => /\ \A n \in DOMAIN new_state_dict' : ~IsSubstring(kv_cache_marker, n)
       /\ \A n \in DOMAIN new_state_dict :
             ~IsSubstring(kv_cache_marker, n) =>
                 n \in DOMAIN new_state_dict' /\ new_state_dict'[n] = new_state_dict[n]
       /\ DOMAIN new_state_dict' \subseteq DOMAIN new_state_dict
C3_CacheStripped == [][C3_Action]_vars

\* the mapping was returned after a run: the cache entry is gone, the
\* quantized entries are there
C3_Witness ==
    /\ outcome = [call |-> "get_quantized_state_dict", status |-> "ok"]
    /\ CacheName \notin DOMAIN new_state_dict
    /\ CacheName \in DOMAIN StateDict(model)
    /\ \E n \in DOMAIN new_state_dict : n[Len(n)] = "scales"

(***************************************************************************)
(* C4: a linear layer for which skip_layer_func(weight) is true is never   *)
(* quantized: its node is executed normally for every sample (one call,    *)
(* the output is the linear of its original weight), no Hessian is         *)
(* accumulated and faster_quant is not invoked for it, and the mapping     *)
(* keeps the original weight under its name.                               *)
(***************************************************************************)
C4_SkippedLayer ==
    \A j \in 1..Len(model.graph) :
        IsSkipped(j) =>
            LET nd == model.graph[j]
            IN  /\ nd.weight \in DOMAIN new_state_dict
                /\ new_state_dict[nd.weight] = model.params[nd.weight]
                /\ j <= Len(hist.nodes) =>
                      /\ hist.nodes[j].accum = 0
                      /\ hist.nodes[j].fq = 0
                      /\ hist.nodes[j].updates = 0
                      /\ hist.nodes[j].calls <= 1
                /\ j <= Len(env) =>
                      /\ hist.nodes[j].calls = 1
                      /\ Len(env[j].values) = Len(model.inputs.values)
                      /\ \A k \in Samples :
                            NodeValue(j, k) =
                                linear(IF nd.input = 0 THEN model.inputs.values[k]
                                       ELSE NodeValue(nd.input, k),
                                       model.params[nd.weight],
                                       IF nd.bias = <<>> THEN <<>>
                                       ELSE <<model.params[nd.bias[1]]>>)

\* run() has completed on a graph with a skipped layer
C4_Witness ==
    /\ RunCompleted
    /\ \E j \in 1..Len(model.graph) : IsSkipped(j) /\ j <= Len(env)


(***************************************************************************)
(* C5: get_quantized_state_dict on a runner whose run() has not been       *)
(* called (gptq_done is still False) fails with the assertion error,       *)
(* returns no mapping and leaves the runner's mapping as __init__ made it. *)
(***************************************************************************)
C5_NotRun ==
    (~gptq_done /\ outcome.call = "get_quantized_state_dict")
    => /\ outcome.status = "AssertionError"
       /\ new_state_dict = StateDict(model)

\* get_quantized_state_dict was called before any run()
C5_Witness ==
    /\ ~gptq_done
    /\ hist.runs = 0
    /\ outcome.call = "get_quantized_state_dict"
    /\ CacheName \in DOMAIN new_state_dict

(***************************************************************************)
(* C6: on a runner whose quantization mode was never configured, run()     *)
(* fails before any node is executed: no node is called and no Hessian     *)
(* accumulated, the mapping is unchanged, and the runner is not marked as  *)
(* having run, so get_quantized_state_dict still fails.                    *)
(***************************************************************************)
C6_Unconfigured ==
    qmode = "unset"
    => /\ ~gptq_done
       /\ ~running
       /\ env = <<>>
       /\ stack = <<>>
       /\ fq = fq_idle
       /\ hist.runs = 0
       /\ hist.nodes = <<>>
       /\ new_state_dict = StateDict(model)
       /\ outcome.call = "run" => outcome.status \in {"AttributeError", "AssertionError"}
       /\ outcome.call = "get_quantized_state_dict" => outcome.status = "AssertionError"

\* run() was called on a runner that was never configured
C6_Witness ==
    /\ qmode = "unset"
    /\ outcome.call = "run"

(***************************************************************************)
(* C7: the Hessian handed to faster_quant for a node fed N samples (each a *)
(* 2-D activation) is accumulated over exactly N samples: every sample     *)
(* contributes once, total_batches ends at N, and H is (2/N) times the sum *)
(* of Xt X over the samples, whatever the order in which the running       *)
(* average is built up (the orders are compared in the state in which      *)
(* faster_quant receives H; call_function leaves it alone afterwards).     *)
(***************************************************************************)
RECURSIVE SumXtX(_, _)
SumXtX(xs, columns) ==
    IF xs = <<>> THEN ZeroMat(columns, columns)
    ELSE MatAdd(MatMul(Transpose(Head(xs)), Head(xs)), SumXtX(Tail(xs), columns))

C7_Hessian ==
    (stack # <<>> /\ stack[1].pc = "faster_quant")
    => LET f == stack[1]
           xs == f.x.values
           N == Len(xs)
           columns == NCols(f.weight.data)
       IN  /\ f.total_batches = N
           /\ hist.nodes[f.node].accum = N
           /\ hist.nodes[f.node].seen = N
           /\ f.H = MatScale(RNorm(2, N), SumXtX(xs, columns))
           /\ (fq.pc = "error" \/ (fq.pc = "block" /\ fq.i1 = 0))
                 => \A perm \in Permutations(1..N) :
                       Accumulate([i \in 1..N |-> xs[perm[i]]], columns).H = f.H

\* faster_quant is running on the Hessian of three different samples
C7_Witness ==
    /\ stack # <<>>
    /\ stack[1].pc = "faster_quant"
    /\ Len(stack[1].x.values) = 3
    /\ stack[1].x.values[1] # stack[1].x.values[2]
    /\ fq.pc = "block"

(***************************************************************************)
(* C8: for each quantization target faster_quant is invoked exactly once,  *)
(* and only after each of the N samples of the node has been accumulated   *)
(* into its Hessian; the re-entrant call_function invocations made with    *)
(* skip_quant=True (one for the returned output, two more in debug mode)   *)
(* accumulate no Hessian, call no faster_quant and update no mapping, so   *)
(* the recursion depth is bounded (2) and the node terminates.             *)
(***************************************************************************)
RunStep ==
    \/ run_node
    \/ run_end
    \/ call_function_loop
    \/ call_function_return
    \/ call_faster_quant
    \/ FQBlock
    \/ FQColumn
    \/ FQBlockEnd
    \/ FQFinish
    \/ faster_quant_raises
    \/ call_function_update
    \/ call_new_out
    \/ call_old_out
    \/ call_old_q_out
    \/ call_function_return_new_out

\* The interpreter is sequential code: while run() is executing, its next
\* step is taken.  A step of run() is enabled exactly while `running` holds,
\* so this is weak fairness of RunStep, written without ENABLED.
SpecLive == Spec /\ (([]<>~running) \/ ([]<><<RunStep>>_vars))

C8_Once ==
    /\ \A j \in 1..Len(hist.nodes) :
          LET h == hist.nodes[j]
              N == Len(model.inputs.values)
          IN  /\ h.fq <= 1
              /\ h.updates <= h.fq
              /\ h.accum <= N
              /\ h.fq = 1 => (h.accum = N /\ h.seen = N)
              /\ h.depth <= 2
              /\ h.calls <= (IF debug THEN 4 ELSE 2)
              /\ (IsTarget(j) /\ j <= Len(env))
                 => (h.fq = 1 /\ h.updates = 1 /\ h.calls = (IF debug THEN 4 ELSE 2))
    /\ Len(stack) <= 2
    /\ \A d \in 2..Len(stack) : stack[d].skip_quant /\ ~stack[d].quantize_linear

C8_OnceAfterAccumulation ==
    /\ []C8_Once
    /\ (stack # <<>>) ~> (stack = <<>>)

\* a re-entrant call of debug mode is running for a quantized node
C8_Witness ==
    /\ Len(stack) = 2
    /\ stack[2].ret = "old_q_out"
    /\ hist.nodes[stack[1].node].fq = 1
    /\ hist.nodes[stack[1].node].calls = 4

(***************************************************************************)
(* C9: for a weight W with in_features columns, any block size and a group *)
(* size that divides in_features, faster_quant returns Q and DQ with the   *)
(* shape of W, and the list of qparams handed to                           *)
(* combine_qparams_list_func has in_features / groupsize elements, or      *)
(* exactly 1 when groupsize is -1.                                         *)
(***************************************************************************)
SameShape(A, B) ==
    /\ NRows(A) = NRows(B)
    /\ \A r \in 1..NRows(A) : Len(A[r]) = Len(B[r])

C9_Shapes ==
    fq.pc = "done"
    => /\ SameShape(fq.Q, hist.W)
       /\ SameShape(fq.DQ, hist.W)
       /\ Len(fq.all_qparams) =
             (IF fq.groupsize = -1 THEN 1 ELSE NCols(hist.W) \div fq.groupsize)
       /\ NCols(fq.qparams.scales) = Len(fq.all_qparams)

\* faster_quant has returned for groups of 2 columns and blocks of 1 column
C9_Witness ==
    /\ fq.pc = "done"
    /\ fq.groupsize = 2
    /\ fq.blocksize = 1
    /\ Len(fq.all_qparams) = 2

(***************************************************************************)
(* C10: the returned pair is round-trip consistent under the combined      *)
(* qparams: Q = quantize(DQ, qparams), and                                 *)
(* dequantize(quantize(DQ, qparams), qparams) = DQ, every column of DQ     *)
(* being a dequantization with the qparams of the group the combined       *)
(* qparams assign to it.                                                   *)
(***************************************************************************)
C10_RoundTrip ==
    fq.pc = "done"
    => LET gs == PluginGroupsize(fq.groupsize, fq.columns)
       IN  /\ fq.Q = quantize_func(fq.DQ, fq.qparams, gs)
           /\ dequantize_func(quantize_func(fq.DQ, fq.qparams, gs), fq.qparams, gs) = fq.DQ
           /\ \A c \in 1..fq.columns : \A r \in 1..NRows(fq.DQ) :
                 fq.DQ[r][c] = RMul(fq.Q[r][c],
                                    fq.qparams.scales[r][((c - 1) \div gs) + 1])

\* faster_quant has returned with per-column groups of different scales and
\* a reconstruction that differs from the weight
C10_Witness ==
    /\ fq.pc = "done"
    /\ fq.groupsize = 1
    /\ fq.DQ # hist.W
    /\ fq.qparams.scales[1][1] # fq.qparams.scales[1][2]

(***************************************************************************)
(* C11: when the Hessian is the identity, so that the factor Hinv is       *)
(* diagonal, every column still holds its original value when it is        *)
(* quantized, the qparams of each group are get_qparams of the original    *)
(* columns of the group, and the returned Q and DQ are the plain per-group *)
(* quantize / dequantize of the original W, for every block size and       *)
(* group size.                                                             *)
(***************************************************************************)
IdentityMat(n) == [r \in 1..n |-> [c \in 1..n |-> IF r = c THEN ROne ELSE RZero]]

PlainQParams(W, gs) ==
    combine_qparams_list_func(
        [g \in 1..(NCols(W) \div gs) |->
            get_qparams_func(ColSlice(W, (g - 1) * gs + 1, g * gs), gs)])

C11_IdentityHessian ==
    (hist.H = IdentityMat(NCols(hist.W)) /\ fq.pc \in {"block", "col", "done"})
    => LET gs == PluginGroupsize(fq.groupsize, fq.columns)
           plain == PlainQParams(hist.W, gs)
       IN  /\ fq.pc = "col" =>
                 \A c \in (fq.i + 1)..(fq.i2 - fq.i1) :
                    ColSlice(fq.W1, c, c) = ColSlice(hist.W, fq.i1 + c, fq.i1 + c)
           /\ fq.pc \in {"block", "col"} =>
                 \A c \in (fq.i1 + 1)..fq.columns :
                    ColSlice(fq.W, c, c) = ColSlice(hist.W, c, c)
           /\ \A g \in 1..Len(fq.all_qparams) :
                 fq.all_qparams[g] =
                    get_qparams_func(ColSlice(hist.W, (g - 1) * gs + 1, g * gs), gs)
           /\ fq.pc = "done" =>
                 /\ fq.qparams = plain
                 /\ fq.Q = quantize_func(hist.W, plain, gs)
                 /\ fq.DQ = dequantize_func(quantize_func(hist.W, plain, gs), plain, gs)

\* faster_quant has returned for the identity Hessian, groups of 2 columns
\* inside blocks of 3, and a reconstruction that differs from the weight
C11_Witness ==
    /\ fq.pc = "done"
    /\ hist.H = IdentityMat(NCols(hist.W))
    /\ fq.groupsize = 2
    /\ fq.blocksize = 3
    /\ fq.DQ # hist.W

(***************************************************************************)
(* C12: for every column j whose Hessian diagonal entry is zero on entry   *)
(* to faster_quant, H[j, j] is set to 1 and column j of W is set to zero   *)
(* before dampening, factorization and quantization: the divisor           *)
(* Hinv[j, j] of the column is not zero, the column is zero when it is     *)
(* quantized, its scale is positive, and column j of Q and of DQ is zero   *)
(* (no NaN, no Inf).                                                       *)
(***************************************************************************)
C12_DeadColumns ==
    fq.pc \in {"block", "col", "done"}
    => \A j \in DeadColumns(hist.H) :
          LET n == NCols(hist.H)
              gs == PluginGroupsize(fq.groupsize, fq.columns)
              damp == RMul(model.percdamp,
                           Mean([c \in 1..n |-> IF hist.H[c][c] = RZero
                                                THEN ROne ELSE hist.H[c][c]]))
              zero == [r \in 1..NRows(hist.W) |-> <<RZero>>]
          IN  /\ RLess(RZero, fq.Hinv.d2[j])
              /\ RMul(fq.Hinv.d2[j], RAdd(ROne, damp)) = ROne
              /\ ColSlice(fq.W, j, j) = zero
              /\ (fq.pc = "col" /\ j > fq.i1 /\ j <= fq.i2 /\ j > fq.i1 + fq.i)
                    => ColSlice(fq.W1, j - fq.i1, j - fq.i1) = zero
              /\ fq.pc = "done" =>
                    /\ ColSlice(fq.DQ, j, j) = zero
                    /\ ColSlice(fq.Q, j, j) = zero
                    /\ \A r \in 1..NRows(hist.W) :
                          RLess(RZero, fq.qparams.scales[r][((j - 1) \div gs) + 1])

\* faster_quant has returned, without dampening, for a Hessian with a dead
\* column under a non-zero weight, after columns with a quantization error
C12_Witness ==
    /\ fq.pc = "done"
    /\ model.percdamp = RZero
    /\ \E j \in DeadColumns(hist.H) :
          /\ ColSlice(hist.W, j, j) # ColSlice(fq.DQ, j, j)
          /\ \E c \in 1..(j - 1) : ColSlice(hist.W, c, c) # ColSlice(fq.DQ, c, c)

(***************************************************************************)
(* C13: when the Cholesky factorization of the dampened Hessian of a       *)
(* target layer fails, the error leaves run() with no recovery: no mapping *)
(* entry of the layer is deleted or inserted, no Q / DQ is produced for    *)
(* it, and no later node of the graph is executed.                         *)
(***************************************************************************)
C13_CholeskyFailure ==
    (outcome.call = "run" /\ outcome.status = "LinAlgError")
    => LET j == Len(env) + 1
           name == model.graph[j].weight
           M == ModFqn(name)
       IN  /\ ~running
           /\ stack = <<>>
           /\ fq = fq_idle
           /\ j <= Len(model.graph)
           /\ IsTarget(j)
           /\ hist.nodes[j].fq = 1
           /\ hist.nodes[j].updates = 0
           /\ hist.nodes[j].Q = <<>>
           /\ hist.nodes[j].DQ = <<>>
           /\ name \in DOMAIN new_state_dict
           /\ new_state_dict[name] = model.params[name]
           /\ \A n \in DOMAIN new_state_dict :
                 (Len(n) > Len(M) /\ SubSeq(n, 1, Len(M)) = M)
                    => n \in DOMAIN StateDict(model) /\ new_state_dict[n] = StateDict(model)[n]
           /\ \A j2 \in (j + 1)..Len(model.graph) : hist.nodes[j2].calls = 0

\* run() has failed in the first layer of a graph of several nodes
C13_Witness ==
    /\ outcome.call = "run"
    /\ outcome.status = "LinAlgError"
    /\ Len(model.graph) > Len(env) + 1
    /\ hist.nodes[Len(env) + 1].accum > 0

(***************************************************************************)
(* C14: when the Hessian of a layer is not positive-definite after         *)
(* dampening, the error that reaches the caller of run() identifies the    *)
(* offending layer: its module or parameter name is in the error, or has   *)
(* at least been printed.                                                  *)
(***************************************************************************)
C14_ErrorNamesLayer ==
    (outcome.call = "run" /\ outcome.status = "LinAlgError")
    => LET name == model.graph[Len(env) + 1].weight
       IN  \/ IsSubstring(ModFqn(name), outcome.args)
           \/ IsSubstring(name, outcome.args)
           \/ \E i \in 1..Len(hist.printed) : hist.printed[i] = ModFqn(name)

\* run() has failed with the error of the factorization
C14_Witness ==
    /\ outcome.call = "run"
    /\ outcome.status = "LinAlgError"
    /\ outcome.args[1] = "linalg.cholesky"
    /\ hist.printed = <<>>

(***************************************************************************)
(* C19: in grouped mode the qparams of the group that starts at global     *)
(* column c are computed from the current, partially-corrected values of   *)
(* the columns of the group: values that include the error feedback of     *)
(* every column processed before c, the columns processed earlier in the   *)
(* same block included.                                                    *)
(***************************************************************************)
\* column c (1-based, global) of the weight with the feedback of every
\* column quantized so far: the block's copy inside the block, and W minus
\* the feedback the block has not yet handed on beyond it
CurrentColumn(f, c) ==
    IF c <= f.i2
    THEN ColSlice(f.W1, c - f.i1, c - f.i1)
    ELSE [r \in 1..NRows(f.W) |->
            <<RSub(f.W[r][c],
                   RSum([k \in 1..f.i |-> RMul(f.Err1[r][k], f.Hinv.unit[f.i1 + k][c])]))>>]

CurrentColumns(f, a, b) ==
    [r \in 1..NRows(f.W) |-> [c \in 1..(b - a + 1) |-> CurrentColumn(f, a + c - 1)[r][1]]]

StartsGroup(f) ==
    /\ f.pc = "col"
    /\ f.i < f.i2 - f.i1
    /\ f.groupsize # -1
    /\ (f.i1 + f.i) % f.groupsize = 0

C19_Action ==
    (StartsGroup(fq) /\ fq' # fq)
    => LET gcol == fq.i1 + fq.i
           last == Min(gcol + fq.groupsize, fq.columns)
       IN  fq'.cur_qparams =
              <<get_qparams_func(CurrentColumns(fq, gcol + 1, last), fq.groupsize)>>
C19_CurrentValues == [][C19_Action]_vars

\* a group starts inside a block whose earlier columns left an error, and
\* its qparams differ from those of the current values of its columns
C19_Witness ==
    /\ fq.pc = "col"
    /\ fq.groupsize = 2
    /\ fq.blocksize = 4
    /\ fq.i = 3
    /\ Len(fq.all_qparams) = 2
    /\ \E r \in 1..NRows(fq.W) : fq.Err1[r][1] # RZero \/ fq.Err1[r][2] # RZero
    /\ fq.all_qparams[2] #
          get_qparams_func(
             [r \in 1..NRows(fq.W) |->
                 <<RAdd(fq.W1[r][3], fq.Err1[r][3]),
                   RAdd(fq.W1[r][4], RMul(fq.Err1[r][3], fq.Hinv.unit[3][4]))>>], 2)

(***************************************************************************)
(* C20: in whole-tensor mode (groupsize = -1) the single qparams object is *)
(* computed from W after the dead-column handling: from the weight in      *)
(* which every column with a zero Hessian diagonal has been zeroed.        *)
(***************************************************************************)
C20_QParamsAfterDeadColumns ==
    (fq.pc \in {"block", "col", "done"} /\ fq.groupsize = -1)
    => fq.cur_qparams = <<get_qparams_func(ZeroDeadW(hist.W, hist.H), fq.columns)>>

\* whole-tensor mode on a Hessian whose dead column lies under the largest
\* weight of a row: the qparams are those of the weight before the zeroing
C20_Witness ==
    /\ fq.pc = "done"
    /\ fq.groupsize = -1
    /\ DeadColumns(hist.H) # {}
    /\ fq.qparams = get_qparams_func(hist.W, fq.columns)
    /\ fq.qparams # get_qparams_func(ZeroDeadW(hist.W, hist.H), fq.columns)

(***************************************************************************)
(* MultiInput: the objects by identity.  Every MultiInput owns the list it *)
(* made with list(inputs); a reference to a MultiInput is its index in the *)
(* heap.                                                                   *)
(***************************************************************************)
MaxBatches == 3
MaxAdds == 2

\* the runner's variables when no GenericGPTQRunner has been made
no_runner ==
    /\ qmode = "unset"
    /\ gptq_done = FALSE
    /\ new_state_dict = <<>>
    /\ model = [graph |-> <<>>]
    /\ env = <<>>
    /\ running = FALSE
    /\ stack = <<>>
    /\ fq = fq_idle
    /\ outcome = no_outcome
    /\ hist = [runs |-> 0, nodes |-> <<>>, printed |-> <<>>]

\* an index of a slice: <<>> is None, <<k>> the integer k
SliceStarts == { <<>>, <<1>>, <<-2>> }
SliceStops == { <<>>, <<2>>, <<-1>>, <<5>> }

\* list[start:stop]: Python clips the indices to 0..len and counts a
\* negative index from the end
PyIndex(x, n, default) ==
    IF x = <<>> THEN default
    ELSE IF x[1] < 0 THEN Max(x[1] + n, 0)
    ELSE Min(x[1], n)
PySlice(s, start, stop) ==
    LET n == Len(s)
        lo == PyIndex(start, n, 0)
        hi == PyIndex(stop, n, n)
    IN  [k \in 1..Max(hi - lo, 0) |-> s[lo + k]]

\* lines 199-201: self.values = list(inputs)
MultiInput_init(heap, inputs) ==
    [heap |-> Append(heap, [values |-> inputs]), result |-> Len(heap) + 1]

\* lines 203-205: self.values.append(input); return self
MultiInput_add_input(heap, self, input) ==
    [heap |-> [heap EXCEPT ![self].values = Append(@, input)], result |-> self]

\* __getitem__ cutting the list of the object itself and returning it
MultiInput_getitem_in_place(heap, self, start, stop) ==
    [heap |-> [heap EXCEPT ![self].values = PySlice(@, start, stop)], result |-> self]

\* lines 207-208: return MultiInput(self.values[slice])
MultiInput_getitem(heap, self, start, stop) ==
    MultiInput_init(heap, PySlice(heap[self].values, start, stop))

MIGetItem ==
    /\ multi_inputs.heap # <<>>
    /\ Len(multi_inputs.heap) < MaxBatches
    /\ \E self \in 1..Len(multi_inputs.heap), start \in SliceStarts, stop \in SliceStops :
          LET r == MultiInput_getitem(multi_inputs.heap, self, start, stop)
          IN  multi_inputs' = [multi_inputs EXCEPT
                                  !.heap = r.heap,
                                  !.call = [op |-> "getitem", self |-> self, start |-> start,
                                            stop |-> stop, result |-> r.result]]
    /\ UNCHANGED <<runner, quantizer, recorder>>

MIAddInput ==
    /\ multi_inputs.heap # <<>>
    /\ multi_inputs.adds < MaxAdds
    /\ \E self \in 1..Len(multi_inputs.heap), input \in {"x"} :
          LET r == MultiInput_add_input(multi_inputs.heap, self, input)
          IN  multi_inputs' = [multi_inputs EXCEPT
                                  !.heap = r.heap,
                                  !.adds = @ + 1,
                                  !.call = [op |-> "add_input", self |-> self,
                                            input |-> input, result |-> r.result]]
    /\ UNCHANGED <<runner, quantizer, recorder>>

\* one MultiInput made from a list of calibration values
InitMI ==
    /\ no_runner
    /\ quantizer = quantizer_idle
    /\ recorder = recorder_idle
    /\ \E inputs \in { <<"a", "b", "c">>, <<"a", "b">>, <<>> } :
          multi_inputs = [heap |-> MultiInput_init(<<>>, inputs).heap, adds |-> 0,
                          call |-> [op |-> "init", result |-> 1]]

NextMI ==
    \/ MIGetItem
    \/ MIAddInput

SpecMI == InitMI /\ [][NextMI]_vars

(***************************************************************************)
(* C16: slicing a MultiInput returns a new batch that holds exactly the    *)
(* values of the sub-range in their original order and leaves every        *)
(* existing batch as it was; appending to a batch changes no other batch.  *)
(***************************************************************************)
\* the sub-range start..stop (0-based, stop excluded) of a list of n values
SubRange(s, start, stop) ==
    LET n == Len(s)
        lo == IF start = <<>> THEN 0
              ELSE IF start[1] >= 0 THEN (IF start[1] > n THEN n ELSE start[1])
              ELSE (IF start[1] + n < 0 THEN 0 ELSE start[1] + n)
        hi == IF stop = <<>> THEN n
              ELSE IF stop[1] >= 0 THEN (IF stop[1] > n THEN n ELSE stop[1])
              ELSE (IF stop[1] + n < 0 THEN 0 ELSE stop[1] + n)
    IN  IF hi <= lo THEN <<>> ELSE SubSeq(s, lo + 1, hi)

C16_Action ==
    LET heap == multi_inputs.heap
        call == multi_inputs'.call
        after == multi_inputs'.heap
    IN  /\ (multi_inputs' # multi_inputs /\ call.op = "getitem")
              => /\ call.result = Len(heap) + 1
                 /\ Len(after) = Len(heap) + 1
                 /\ after[call.result].values =
                       SubRange(heap[call.self].values, call.start, call.stop)
                 /\ \A o \in 1..Len(heap) : after[o] = heap[o]
        /\ (multi_inputs' # multi_inputs /\ call.op = "add_input")
              => /\ call.result = call.self
                 /\ Len(after) = Len(heap)
                 /\ after[call.self].values = Append(heap[call.self].values, call.input)
                 /\ \A o \in 1..Len(heap) : o # call.self => after[o] = heap[o]
C16_SliceIsNewBatch == [][C16_Action]_vars

\* a batch of three values, its slice [1:] and the slice [:-1] of that
\* slice, after a value was appended to the first slice only
C16_Witness ==
    /\ Len(multi_inputs.heap) = 3
    /\ multi_inputs.heap[1].values = <<"a", "b", "c">>
    /\ multi_inputs.heap[2].values = <<"b", "c", "x">>
    /\ multi_inputs.heap[3].values = <<"b", "c">>
    /\ multi_inputs.call.op = "getitem"
    /\ multi_inputs.call.self = 2

(***************************************************************************)
(* InputRecorder: _model_call on token sequences of shape (1, T)           *)
(***************************************************************************)
MaxCalls == 2
MaxT == 3

Tokens == {0, 1}
TokenSeqs == UNION { [1..t -> Tokens] : t \in 1..MaxT }

\* lines 71-98; vocab_size kept small
RecorderConfigs ==
    [calibration_seq_length : {2, 3}, pad_calibration_inputs : BOOLEAN,
     pad_token : {0, 1}, vocab_size : {5}, input_prep_func : {"default", "with_input_pos"}]

\* _model_call without the test for the pad token
rejects_short_only(rec, inps) ==
    Len(inps) < rec.calibration_seq_length /\ ~rec.pad_calibration_inputs

\* lines 165-171: the input cannot be used
rejects(rec, inps) ==
    \/ (Len(inps) < rec.calibration_seq_length /\ ~rec.pad_calibration_inputs)
    \/ (rec.pad_calibration_inputs /\ \E t \in 1..Len(inps) : inps[t] = rec.pad_token)

\* F.pad(x, (left, right)) of a 1-D tensor, mode constant, value 0: left
\* and right are counts, a negative count removes elements
F_pad(x, left, right) ==
    LET front == IF left >= 0 THEN [k \in 1..left |-> 0] \o x
                 ELSE SubSeq(x, 1 - left, Len(x))
    IN  IF right >= 0 THEN front \o [k \in 1..right |-> 0]
        ELSE SubSeq(front, 1, Len(front) + right)

\* lines 178-181: pad or truncate to the right size
pad_or_truncate(rec, inps) ==
    LET T == Len(inps)
    IN  IF T >= rec.calibration_seq_length
        THEN SubSeq(inps, 1, rec.calibration_seq_length)
        ELSE F_pad(inps, rec.pad_token, rec.calibration_seq_length - T)

\* lines 90-93: input_prep_func on the unsqueezed input: the default
\* lambda x: (x,), or a function of the caller that returns the input and
\* the positions 0..len-1 (two model arguments)
input_prep_func(rec, inps) ==
    IF rec.input_prep_func = "default" THEN << <<inps>> >>
    ELSE << <<inps>>, [k \in 1..Len(inps) |-> k - 1] >>

\* add_input making new MultiInputs at every call
InputRecorder_add_input_restart(inputs, heap, args) ==
    [inputs |-> [k \in 1..Len(args) |-> Len(heap) + k],
     heap |-> heap \o [k \in 1..Len(args) |-> [values |-> <<args[k]>>]]]

\* lines 131-137: add_input(args); self.inputs is None (<<>>) or one
\* MultiInput per argument
RECURSIVE AddEach(_, _, _, _)
AddEach(heap, inputs, args, k) ==
    IF k > Len(args) THEN heap
    ELSE AddEach(MultiInput_add_input(heap, inputs[k], args[k]).heap, inputs, args, k + 1)
RECURSIVE MakeEach(_, _, _)
MakeEach(heap, args, k) ==
    IF k > Len(args) THEN heap
    ELSE MakeEach(MultiInput_init(heap, <<args[k]>>).heap, args, k + 1)
InputRecorder_add_input(inputs, heap, args) ==
    IF inputs = <<>>
    THEN [inputs |-> [k \in 1..Len(args) |-> Len(heap) + k],
          heap |-> MakeEach(heap, args, 1)]
    ELSE [inputs |-> inputs, heap |-> AddEach(heap, inputs, args, 1)]

\* lines 162-191: _model_call(inps); the random output is kept as its shape
model_call(rec, heap, inps) ==
    LET T == Len(inps)
        out == <<1, T, rec.vocab_size>>
    IN  IF rejects(rec, inps)
        THEN [inputs |-> rec.inputs, heap |-> heap, returned |-> out]
        ELSE LET model_in == input_prep_func(rec, pad_or_truncate(rec, inps))
                 r == InputRecorder_add_input(rec.inputs, heap, model_in)
             IN  [inputs |-> r.inputs, heap |-> r.heap, returned |-> out]

InputRecorder_model_call ==
    /\ recorder.pc = "ready"
    /\ recorder.calls < MaxCalls
    /\ \E inps \in TokenSeqs :
          LET r == model_call(recorder, multi_inputs.heap, inps)
          IN  /\ recorder' = [recorder EXCEPT !.inputs = r.inputs, !.calls = @ + 1,
                                              !.inps = inps, !.returned = r.returned]
              /\ multi_inputs' = [multi_inputs EXCEPT !.heap = r.heap]
    /\ UNCHANGED <<runner, quantizer>>

InitIR ==
    /\ no_runner
    /\ quantizer = quantizer_idle
    /\ multi_inputs = multi_inputs_none
    /\ \E c \in RecorderConfigs :
          recorder = [pc |-> "ready",
                      calibration_seq_length |-> c.calibration_seq_length,
                      pad_calibration_inputs |-> c.pad_calibration_inputs,
                      pad_token |-> c.pad_token, vocab_size |-> c.vocab_size,
                      input_prep_func |-> c.input_prep_func,
                      inputs |-> <<>>, calls |-> 0, inps |-> <<>>, returned |-> <<>>]

NextIR == InputRecorder_model_call

SpecIR == InitIR /\ [][NextIR]_vars

\* the samples recorded so far, for the first argument of the model
Recorded(rec, mi) == IF rec.inputs = <<>> THEN <<>> ELSE mi.heap[rec.inputs[1]].values

(***************************************************************************)
(* C17: _model_call rejects a sequence shorter than calibration_seq_length *)
(* when padding is disabled and, when padding is enabled, a sequence that  *)
(* contains the pad token: the recorded inputs stay as they are and a      *)
(* placeholder of shape (1, T, vocab_size) is returned; every other        *)
(* sequence is recorded exactly once.                                      *)
(***************************************************************************)
C17_Action ==
    (recorder'.pc = "ready" /\ recorder.pc = "ready" /\ recorder'.calls = recorder.calls + 1)
    => LET inps == recorder'.inps
           T == Len(inps)
           short == T < recorder.calibration_seq_length
           has_pad == \E t \in 1..T : inps[t] = recorder.pad_token
           rejected == \/ (short /\ ~recorder.pad_calibration_inputs)
                       \/ (recorder.pad_calibration_inputs /\ has_pad)
       IN  /\ recorder'.returned = <<1, T, recorder.vocab_size>>
           /\ rejected => /\ recorder'.inputs = recorder.inputs
                          /\ multi_inputs'.heap = multi_inputs.heap
           /\ ~rejected =>
                 /\ Len(Recorded(recorder', multi_inputs')) =
                       Len(Recorded(recorder, multi_inputs)) + 1
                 /\ SubSeq(Recorded(recorder', multi_inputs'), 1,
                           Len(Recorded(recorder, multi_inputs))) =
                       Recorded(recorder, multi_inputs)
                 /\ Len(multi_inputs'.heap) = Len(recorder'.inputs)
C17_Rejected == [][C17_Action]_vars

\* with padding enabled, a first sequence was recorded and a second one,
\* which holds the pad token, was not
C17_Witness ==
    /\ recorder.pc = "ready"
    /\ recorder.calls = 2
    /\ recorder.pad_calibration_inputs
    /\ \E t \in 1..Len(recorder.inps) : recorder.inps[t] = recorder.pad_token
    /\ Len(Recorded(recorder, multi_inputs)) = 1

(***************************************************************************)
(* C18: every sample InputRecorder records has length exactly              *)
(* calibration_seq_length before input_prep_func, for every pad_token and  *)
(* every input length T.                                                   *)
(***************************************************************************)
C18_RecordedLength ==
    recorder.pc = "ready"
    => \A k \in 1..Len(Recorded(recorder, multi_inputs)) :
          Len(Recorded(recorder, multi_inputs)[k][1]) = recorder.calibration_seq_length

\* with pad_token 1 a sequence of one token was recorded as
\* calibration_seq_length + 1 tokens, padded with 0
C18_Witness ==
    /\ recorder.pc = "ready"
    /\ recorder.pad_token = 1
    /\ recorder.calibration_seq_length = 3
    /\ recorder.inps = <<0>>
    /\ Recorded(recorder, multi_inputs) # <<>>
    /\ Recorded(recorder, multi_inputs)[Len(Recorded(recorder, multi_inputs))]
          = << <<0, 0, 0, 0>> >>

(***************************************************************************)
(* Int8DynActInt4WeightQuantizer._create_quantized_state_dict on a model   *)
(* of bias-free modules; tensors are kept as their kind and shape          *)
(***************************************************************************)
MaxModules == 2
OutFeatures == 8

\* lines 955-977: the configurations __init__ accepts
QuantizerConfigs ==
    { c \in [groupsize : {32, 64}, padding_allowed : BOOLEAN,
             inner_k_tiles : {<<>>, <<2>>, <<4>>}, is_gpt_fast : BOOLEAN] :
        IF c.is_gpt_fast
        THEN c.inner_k_tiles # <<>> /\ c.inner_k_tiles[1] \in {2, 4, 8}
             /\ c.groupsize \in {32, 64, 128, 256}
        ELSE c.inner_k_tiles = <<>> }

\* modules of the model: nn.Linear without bias, or another module with a weight
ModuleKinds ==
    [kind : {"Linear"}, in_features : {32, 48, 64, 96}]
       \cup [kind : {"Embedding"}, in_features : {32}]
ModuleLists == UNION { [1..n -> ModuleKinds] : n \in 1..MaxModules }
Fqn(k) == <<"layers", k>>

\* model.state_dict(), line 982
RECURSIVE model_state_dict(_, _)
model_state_dict(mods, k) ==
    IF k = 0 THEN <<>>
    ELSE DictSet(model_state_dict(mods, k - 1), <<Fqn(k), "weight">>,
                 [kind |-> "float", shape |-> <<OutFeatures, mods[k].in_features>>])

\* lines 856-861, with inner_k_tiles None (<<>>) or given
check_linear_int4_k_tiles(k, groupsize, inner_k_tiles) ==
    LET k_divisible_by_groupsize == k % groupsize = 0
    IN  IF inner_k_tiles # <<>>
        THEN k_divisible_by_groupsize /\ k % (inner_k_tiles[1] * 16) = 0
        ELSE k_divisible_by_groupsize

\* lines 1010-1027: the entries written for one quantized layer
quantized_entries(q, fqn, width) ==
    LET groups == width \div q.groupsize
    IN  IF q.is_gpt_fast
        THEN << << <<fqn, "weight">>,
                   [kind |-> "int4pack", shape |-> <<OutFeatures, width>>] >>,
                << <<fqn, "scales_and_zeros">>,
                   [kind |-> "scales_and_zeros", shape |-> <<groups, OutFeatures, 2>>] >> >>
        ELSE << << <<fqn, "weight">>,
                   [kind |-> "int8", shape |-> <<OutFeatures, width>>] >>,
                << <<fqn, "scales">>,
                   [kind |-> "scales", shape |-> <<OutFeatures, groups>>] >>,
                << <<fqn, "zeros">>,
                   [kind |-> "zeros", shape |-> <<OutFeatures, groups>>] >> >>

\* lines 983-1028: the body of the loop for one module of named_modules()
create_quantized_state_dict_step ==
    /\ quantizer.pc = "loop"
    /\ quantizer.i <= Len(quantizer.modules)
    /\ LET q == quantizer
           mod == q.modules[q.i]
           fqn == Fqn(q.i)
           in_features == mod.in_features
           seen == Append(q.printed, <<"linear", fqn>>)
       IN  quantizer' =
             IF mod.kind # "Linear"
             THEN [q EXCEPT !.i = @ + 1]
             ELSE IF in_features % q.groupsize # 0
             THEN [q EXCEPT !.pc = "raised", !.error = "AssertionError", !.printed = seen]
             ELSE IF ~check_linear_int4_k_tiles(in_features, q.groupsize, q.inner_k_tiles)
                     /\ ~q.padding_allowed
             THEN [q EXCEPT !.i = @ + 1,
                            !.printed = Append(seen, <<"warning: skipped", fqn>>)]
             ELSE LET padded == ~check_linear_int4_k_tiles(in_features, q.groupsize, q.inner_k_tiles)
                      width == IF padded THEN find_multiple(in_features, 1024)
                               ELSE in_features
                  IN  [q EXCEPT !.i = @ + 1,
                                !.printed = IF padded
                                            THEN Append(seen, <<"warning: padded", fqn>>)
                                            ELSE seen,
                                !.cur_state_dict =
                                    DictSetAll(@, quantized_entries(q, fqn, width))]
    /\ UNCHANGED <<runner, multi_inputs, recorder>>

\* line 1030
create_quantized_state_dict_return ==
    /\ quantizer.pc = "loop"
    /\ quantizer.i > Len(quantizer.modules)
    /\ quantizer' = [quantizer EXCEPT !.pc = "returned"]
    /\ UNCHANGED <<runner, multi_inputs, recorder>>

InitQ ==
    /\ no_runner
    /\ multi_inputs = multi_inputs_none
    /\ recorder = recorder_idle
    /\ \E c \in QuantizerConfigs, mods \in ModuleLists :
          quantizer = [pc |-> "loop", groupsize |-> c.groupsize,
                       padding_allowed |-> c.padding_allowed,
                       inner_k_tiles |-> c.inner_k_tiles, is_gpt_fast |-> c.is_gpt_fast,
                       modules |-> mods, i |-> 1,
                       cur_state_dict |-> model_state_dict(mods, Len(mods)),
                       printed |-> <<>>, error |-> "none"]

NextQ == create_quantized_state_dict_step \/ create_quantized_state_dict_return

SpecQ == InitQ /\ [][NextQ]_vars

\* the layer does not fit the group or tiling constraints
Incompatible(q, mod) ==
    \/ mod.in_features % q.groupsize # 0
    \/ (q.inner_k_tiles # <<>> /\ mod.in_features % (q.inner_k_tiles[1] * 16) # 0)

\* the entries of the mapping that belong to module k
EntriesOf(d, k) == [key \in {x \in DOMAIN d : x[1] = Fqn(k)} |-> d[key]]

(***************************************************************************)
(* C15: in _create_quantized_state_dict a linear layer whose in_features   *)
(* does not fit the constraints (not divisible by groupsize, or not        *)
(* divisible by inner_k_tiles*16) while padding is disallowed is skipped:  *)
(* no exception is raised, the layer's entries in the mapping stay as they *)
(* were, and the remaining layers are still processed.                     *)
(***************************************************************************)
C15_PolicySkip ==
    quantizer.pc \in {"loop", "returned", "raised"}
    => LET q == quantizer
           before == model_state_dict(q.modules, Len(q.modules))
       IN  \A k \in 1..Len(q.modules) :
              (q.modules[k].kind = "Linear" /\ Incompatible(q, q.modules[k])
               /\ ~q.padding_allowed)
              => /\ ~(q.pc = "raised" /\ q.i = k)
                 /\ EntriesOf(q.cur_state_dict, k) = EntriesOf(before, k)
                 /\ (q.pc = "loop" /\ q.i = k + 1)
                       => <<"warning: skipped", Fqn(k)>> \in {q.printed[p] : p \in 1..Len(q.printed)}
                 /\ q.pc = "returned"
                       => \A j \in 1..Len(q.modules) :
                             (q.modules[j].kind = "Linear"
                              /\ ~Incompatible(q, q.modules[j]))
                             => <<Fqn(j), "weight">> \in DOMAIN q.cur_state_dict
                                /\ q.cur_state_dict[<<Fqn(j), "weight">>].kind # "float"

\* groupsize 32 and a first layer of 48 inputs, padding disallowed: the walk
\* ends with AssertionError at that layer and the layer after it is not reached
C15_Witness ==
    /\ quantizer.pc = "raised"
    /\ quantizer.error = "AssertionError"
    /\ quantizer.groupsize = 32
    /\ ~quantizer.padding_allowed
    /\ quantizer.i = 1
    /\ Len(quantizer.modules) = 2
    /\ quantizer.modules[1] = [kind |-> "Linear", in_features |-> 48]
    /\ quantizer.modules[2] = [kind |-> "Linear", in_features |-> 64]
    /\ quantizer.cur_state_dict = model_state_dict(quantizer.modules, 2)

(***************************************************************************)
(* C23: get_quantized_state_dict returns a mapping only after run() has    *)
(* walked the whole graph: after a run() that raised part-way through the  *)
(* graph it fails instead of returning a mapping in which only the layers  *)
(* before the failure are quantized.                                       *)
(***************************************************************************)
C23_MappingOnlyAfterFullRun ==
    (outcome.call = "get_quantized_state_dict" /\ outcome.status = "ok")
    => RunCompleted

\* run() has raised at the second target layer, after the first one was
\* quantized, and get_quantized_state_dict has returned the mapping: the
\* weight of the first layer is replaced, that of the second is the original
C23_Witness ==
    /\ outcome.call = "get_quantized_state_dict"
    /\ outcome.status = "ok"
    /\ ~running
    /\ hist.runs > 0
    /\ Len(env) + 1 <= Len(model.graph)
    /\ IsTarget(Len(env) + 1)
    /\ hist.nodes[Len(env) + 1].fq = 1
    /\ hist.nodes[Len(env) + 1].updates = 0
    /\ new_state_dict[model.graph[Len(env) + 1].weight]
          = model.params[model.graph[Len(env) + 1].weight]
    /\ \E j \in 1..Len(env) :
          /\ IsTarget(j)
          /\ hist.nodes[j].updates = 1
          /\ new_state_dict[model.graph[j].weight] = hist.nodes[j].Q

(***************************************************************************)
(* call_function on a node that is not a linear: any number of arguments,  *)
(* each a MultiInput or a plain value, and an operation kept as a term     *)
(***************************************************************************)
MaxArgs == 3
MaxN == 2

PlainValues == {"p"}
BatchValues == {"a", "b"}
FlatArgs ==
    {Plain(v) : v \in PlainValues}
       \cup {MultiInput(vs) : vs \in UNION { [1..n -> BatchValues] : n \in 0..MaxN }}
FlatArgLists == UNION { [1..n -> FlatArgs] : n \in 0..MaxArgs }
Targets == {"add", "cat"}

\* super().call_function(target, cur_args, cur_kwargs) for these targets
Apply(target, cur_args) == [target |-> target, args |-> cur_args]

\* line 329
has_multi_input(flat_args) == \E i \in 1..Len(flat_args) : flat_args[i].multi

\* lines 333-335
multi_input_count(flat_args) ==
    LET lens == {IF flat_args[i].multi THEN Len(flat_args[i].values) ELSE 1 :
                   i \in 1..Len(flat_args)}
    IN  CHOOSE n \in lens : \A m \in lens : m <= n

\* zip(*columns): as many tuples as the shortest column has elements
Zip(columns) ==
    LET lens == {Len(columns[i]) : i \in 1..Len(columns)}
        n == CHOOSE m \in lens : \A l \in lens : m <= l
    IN  [k \in 1..n |-> [i \in 1..Len(columns) |-> columns[i][k]]]

\* transposed_args with a plain argument kept once instead of once per sample
transposed_args_plain_once(flat_args) ==
    IF has_multi_input(flat_args)
    THEN Zip([i \in 1..Len(flat_args) |-> flat_args[i].values])
    ELSE << [i \in 1..Len(flat_args) |-> flat_args[i].values[1]] >>

\* lines 329-350
transposed_args(flat_args) ==
    IF has_multi_input(flat_args)
    THEN Zip([i \in 1..Len(flat_args) |->
                IF flat_args[i].multi THEN flat_args[i].values
                ELSE [k \in 1..multi_input_count(flat_args) |-> flat_args[i].values[1]]])
    ELSE << [i \in 1..Len(flat_args) |-> flat_args[i].values[1]] >>

\* lines 317-364: entry of call_function, up to the loop over the samples
FlatFrame(target, flat_args) ==
    [target |-> target, flat_args |-> flat_args,
     has_multi_input |-> has_multi_input(flat_args),
     transposed_args |-> transposed_args(flat_args),
     quantize_linear |-> FALSE,      \* the target is not aten.linear.default
     pc |-> "flat_loop", k |-> 1, outputs |-> <<>>]

\* lines 366-392: one iteration of the loop, for a node that is not quantized
call_function_flat_loop ==
    /\ stack # <<>>
    /\ Top.pc = "flat_loop"
    /\ Top.k <= Len(Top.transposed_args)
    /\ stack' = SetTop([Top EXCEPT !.k = @ + 1,
                                   !.outputs = Append(@, Apply(Top.target,
                                                               Top.transposed_args[Top.k]))])
    /\ UNCHANGED <<qmode, gptq_done, new_state_dict, model, beside_runner, env, running, fq,
                   outcome, hist>>

\* line 467
call_function_flat_return ==
    /\ stack # <<>>
    /\ Top.pc = "flat_loop"
    /\ Top.k > Len(Top.transposed_args)
    /\ ~Top.quantize_linear
    /\ outcome' = [call |-> "call_function", status |-> "ok",
                   target |-> Top.target, flat_args |-> Top.flat_args,
                   value |-> IF Top.has_multi_input THEN MultiInput(Top.outputs)
                             ELSE Plain(Top.outputs[1])]
    /\ stack' = <<>>
    /\ UNCHANGED <<qmode, gptq_done, new_state_dict, model, beside_runner, env, running, fq,
                   hist>>

\* a configured runner in the middle of run(), entering call_function
InitCF ==
    /\ qmode = "set"
    /\ gptq_done = TRUE
    /\ model = [graph |-> <<>>, params |-> NamedParameters(0, 3), buffers |-> NamedBuffers]
    /\ new_state_dict = StateDict(model)
    /\ env = <<>>
    /\ running = TRUE
    /\ \E target \in Targets, flat_args \in FlatArgLists :
          stack = <<FlatFrame(target, flat_args)>>
    /\ fq = fq_idle
    /\ outcome = [call |-> "run", status |-> "running"]
    /\ hist = [runs |-> 1, nodes |-> <<>>, printed |-> <<>>]
    /\ quantizer = quantizer_idle
    /\ multi_inputs = multi_inputs_none
    /\ recorder = recorder_idle

NextCF == call_function_flat_loop \/ call_function_flat_return

SpecCF == InitCF /\ [][NextCF]_vars

\* the indices of the batched arguments
Batched(flat_args) == {i \in 1..Len(flat_args) : flat_args[i].multi}

(***************************************************************************)
(* C22: for a node that is not a quantization target and whose batched     *)
(* arguments all have length N, call_function produces exactly N outputs   *)
(* in sample order, the k-th being the operation applied to the k-th value *)
(* of every batched argument and to every plain argument unchanged; the    *)
(* result is a batch when at least one argument is a batch and the plain   *)
(* value of a single execution when none is; the mapping is unchanged.     *)
(***************************************************************************)
C22_PerSampleOutputs ==
    /\ (stack # <<>> /\ Top.pc = "flat_loop") => new_state_dict = StateDict(model)
    /\ outcome.call = "call_function"
       => LET a == outcome.flat_args
              B == Batched(a)
          IN  /\ new_state_dict = StateDict(model)
              /\ (\A i, j \in B : Len(a[i].values) = Len(a[j].values))
                 => IF B = {}
                    THEN outcome.value =
                            Plain(Apply(outcome.target,
                                        [i \in 1..Len(a) |-> a[i].values[1]]))
                    ELSE LET N == Len(a[CHOOSE i \in B : TRUE].values)
                         IN  /\ outcome.value.multi
                             /\ Len(outcome.value.values) = N
                             /\ \A k \in 1..N :
                                   outcome.value.values[k] =
                                      Apply(outcome.target,
                                            [i \in 1..Len(a) |->
                                               IF i \in B THEN a[i].values[k]
                                               ELSE a[i].values[1]])

\* two batches of two samples and a plain argument have given a batch of
\* two outputs
C22_Witness ==
    /\ outcome.call = "call_function"
    /\ outcome.flat_args = <<MultiInput(<<"a", "b">>), Plain("p"), MultiInput(<<"b", "b">>)>>
    /\ outcome.value.multi
    /\ Len(outcome.value.values) = 2
    /\ outcome.value.values[2].args = <<"b", "p", "b">>

(***************************************************************************)
(* faster_quant as sequential code: while it is inside its loops the next  *)
(* step is taken (weak fairness of NextFQ, written without ENABLED).       *)
(***************************************************************************)
SpecFQLive ==
    SpecFQ /\ (([]<>(fq.pc \notin {"block", "col"})) \/ ([]<><<NextFQ>>_vars))

\* the number of columns quantized so far
Quantized(f) ==
    CASE f.pc = "col" -> f.i1 + f.i
      [] f.pc = "block" -> Min(f.i1, f.columns)
      [] f.pc = "done" -> f.columns
      [] OTHER -> 0

\* column c (1-based) of DQ as written so far: in the block's DQ1 until the
\* block is copied into DQ
DQColumn(f, c) ==
    IF f.pc = "col" /\ c > f.i1 /\ c <= f.i2
    THEN ColSlice(f.DQ1, c - f.i1, c - f.i1)
    ELSE ColSlice(f.DQ, c, c)

\* the qparams in force for column c (1-based)
QParamsOfColumn(f, c) ==
    IF f.groupsize = -1 THEN f.cur_qparams[1]
    ELSE f.all_qparams[((c - 1) \div f.groupsize) + 1]

\* sequential GPTQ, column by column: the value of column j when it is
\* quantized is the weight (dead columns zeroed) minus, for every column
\* i < j, once, the error of column i times Hinv[i, j] / Hinv[i, i].
\* SequentialErrors(f, j) holds the errors of columns 1..j
RECURSIVE SequentialErrors(_, _)
ValueFrom(f, errors, j) ==
    LET W0 == ZeroDeadW(hist.W, hist.H)
    IN  Tensor([r \in 1..NRows(W0) |->
                  <<RSub(W0[r][j],
                         RSum([i \in 1..(j - 1) |->
                                 RMul(errors[i][r][1], f.Hinv.unit[i][j])]))>>])
SequentialErrors(f, j) ==
    IF j = 0 THEN <<>>
    ELSE LET before == SequentialErrors(f, j - 1)
             gs == PluginGroupsize(f.groupsize, f.columns)
             qp == QParamsOfColumn(f, j)
             w == ValueFrom(f, before, j)
         IN  Append(before,
                    Tensor(MatSub(w, dequantize_func(quantize_func(w, qp, gs), qp, gs))))
ValueWhenQuantized(f, j) == ValueFrom(f, SequentialErrors(f, j - 1), j)

(***************************************************************************)
(* C21: faster_quant quantizes every column exactly once, in increasing    *)
(* order, for every block size (a last partial block included) and then    *)
(* terminates; when column j is quantized its value holds the error        *)
(* feedback of every column i < j exactly once (inside the block through   *)
(* the block's copy, across blocks through the update at the end of the    *)
(* block); a DQ column, once written, is never changed.                    *)
(***************************************************************************)
\* the column about to be quantized holds the feedback of every column
\* before it, once
C21_Feedback ==
    (fq.pc = "col" /\ fq.i < fq.i2 - fq.i1)
    => ColSlice(fq.W1, fq.i + 1, fq.i + 1) = ValueWhenQuantized(fq, fq.i1 + fq.i + 1)

\* one step quantizes at most one column, the next one in order, and leaves
\* the DQ columns written before as they are
C21_Action ==
    (fq' # fq /\ fq.pc \in {"block", "col"})
    => LET q == Quantized(fq)
           q2 == Quantized(fq')
           zero == ZeroMat(NRows(fq.W), 1)
           gs == PluginGroupsize(fq.groupsize, fq.columns)
           w == ColSlice(fq.W1, fq.i + 1, fq.i + 1)
       IN  /\ q2 \in {q, q + 1}
           /\ q2 <= fq.columns
           /\ \A c \in 1..q : DQColumn(fq', c) = DQColumn(fq, c)
           /\ \A c \in (q2 + 1)..fq.columns : DQColumn(fq', c) = zero
           /\ (fq.pc = "block" /\ fq'.pc = "col") => (fq'.i1 = q /\ fq'.i2 > q)
           /\ q2 = q + 1
              => /\ fq.pc = "col"
                 /\ DQColumn(fq', q2) =
                       dequantize_func(quantize_func(w, fq'.cur_qparams[1], gs),
                                       fq'.cur_qparams[1], gs)
           /\ fq'.pc = "done" => q = fq.columns

C21_Sequential ==
    /\ []C21_Feedback
    /\ [][C21_Action]_vars
    /\ <>(fq.pc \in {"done", "error"})

\* the one column of a last, partial block has been quantized, and the
\* update at the end of the block before it had changed its value
C21_Witness ==
    /\ fq.pc = "col"
    /\ fq.blocksize = 3
    /\ fq.columns = 4
    /\ fq.i1 = 3
    /\ fq.i2 = 4
    /\ fq.i = 1
    /\ ColSlice(fq.W, 4, 4) # ColSlice(ZeroDeadW(hist.W, hist.H), 4, 4)

\* the keys whose entry differs between two mappings
ChangedKeys(d1, d2) ==
    {n \in DOMAIN d1 \cup DOMAIN d2 :
        n \notin DOMAIN d1 \/ n \notin DOMAIN d2 \/ d1[n] # d2[n]}

\* key n is mod_fqn + "." + leaf for some leaf of `leaves`
UnderModule(n, mod_fqn, leaves) ==
    /\ Len(n) = Len(mod_fqn) + 2
    /\ SubSeq(n, 1, Len(mod_fqn)) = mod_fqn
    /\ n[Len(mod_fqn) + 1] = "."
    /\ n[Len(n)] \in leaves

(***************************************************************************)
(* C24: quantizing one target node changes only mapping keys under that    *)
(* node's own module prefix (its weight key, its bias key and the keys the *)
(* plugin names): the entries of every other module, of layers quantized   *)
(* earlier and of layers not yet reached, are unchanged by that step, and  *)
(* the side computations of debug mode change no entry at all.             *)
(***************************************************************************)
C24_Action ==
    (stack # <<>>)
    => LET node == stack[1]
           changed == ChangedKeys(new_state_dict, new_state_dict')
       IN  /\ changed # {}
              => /\ Len(stack) = 1
                 /\ node.quantize_linear
                 /\ node.pc = "faster_quant"
                 /\ fq.pc = "done"
                 /\ LET nv == make_names_and_values_dict_func(fq.Q, fq.qparams,
                                                              model.groupsize)
                        leaves == {"weight", "bias"} \cup {nv[i][1] : i \in 1..Len(nv)}
                    IN  \A n \in changed :
                           UnderModule(n, ModFqn(node.weight.id), leaves)
           /\ (Len(stack) > 1 \/ node.pc \in {"new_out", "old_out", "old_q_out",
                                               "called", "return"})
              => changed = {}
C24_OwnModuleOnly == [][C24_Action]_vars

\* the second target layer of a graph has just been quantized: its own
\* entries are replaced, those written for the first layer are as they were
C24_Witness ==
    /\ Len(stack) = 1
    /\ stack[1].pc = "new_out"
    /\ stack[1].node = 3
    /\ hist.nodes[3].updates = 1
    /\ hist.nodes[1].updates = 1
    /\ new_state_dict[model.graph[1].weight] = hist.nodes[1].Q
    /\ new_state_dict[model.graph[3].weight] = hist.nodes[3].Q
    /\ new_state_dict[model.graph[3].weight] # model.params[model.graph[3].weight]

\* the model arguments input_prep_func makes of one input
NumModelArgs(rec) == IF rec.input_prep_func = "default" THEN 1 ELSE 2

(***************************************************************************)
(* C25: after any sequence of _model_call invocations, accepted and        *)
(* rejected in any order, inputs is either None or a list with one         *)
(* MultiInput per model argument, all of the same length, the number of    *)
(* accepted samples, and the i-th value of each MultiInput comes from the  *)
(* i-th accepted sample.                                                   *)
(***************************************************************************)
\* None, or one MultiInput per argument, distinct objects of one length
C25_Shape ==
    recorder.pc = "ready"
    => \/ recorder.inputs = <<>> /\ multi_inputs.heap = <<>>
       \/ /\ Len(recorder.inputs) = NumModelArgs(recorder)
          /\ \A a \in 1..Len(recorder.inputs) :
                /\ recorder.inputs[a] \in 1..Len(multi_inputs.heap)
                /\ Len(multi_inputs.heap[recorder.inputs[a]].values)
                      = Len(multi_inputs.heap[recorder.inputs[1]].values)
                /\ Len(multi_inputs.heap[recorder.inputs[a]].values) >= 1
          /\ \A a, b \in 1..Len(recorder.inputs) :
                recorder.inputs[a] = recorder.inputs[b] => a = b

\* a rejected call changes nothing; an accepted one appends to the a-th
\* MultiInput the a-th model argument made of this call's input
C25_Action ==
    (recorder.pc = "ready" /\ recorder'.pc = "ready"
     /\ recorder'.calls = recorder.calls + 1)
    => LET inps == recorder'.inps
           T == Len(inps)
           L == recorder.calibration_seq_length
           rejected == \/ (T < L /\ ~recorder.pad_calibration_inputs)
                       \/ (recorder.pad_calibration_inputs
                           /\ \E t \in 1..T : inps[t] = recorder.pad_token)
           sample == IF T >= L THEN SubSeq(inps, 1, L)
                     ELSE F_pad(inps, recorder.pad_token, L - T)
           args == IF recorder.input_prep_func = "default" THEN << <<sample>> >>
                   ELSE << <<sample>>, [k \in 1..Len(sample) |-> k - 1] >>
           Values(rec, mi, a) == IF rec.inputs = <<>> THEN <<>>
                                 ELSE mi.heap[rec.inputs[a]].values
       IN  IF rejected
           THEN recorder'.inputs = recorder.inputs
                /\ multi_inputs'.heap = multi_inputs.heap
           ELSE /\ Len(recorder'.inputs) = Len(args)
                /\ recorder.inputs # <<>> => recorder'.inputs = recorder.inputs
                /\ \A a \in 1..Len(args) :
                      Values(recorder', multi_inputs', a)
                         = Append(Values(recorder, multi_inputs, a), args[a])
C25_OnePerArgument ==
    /\ []C25_Shape
    /\ [][C25_Action]_vars

\* two model arguments, two accepted samples: both MultiInputs hold two
\* values, the second ones made of the second call's input
C25_Witness ==
    /\ recorder.pc = "ready"
    /\ recorder.calls = 2
    /\ recorder.input_prep_func = "with_input_pos"
    /\ recorder.calibration_seq_length = 2
    /\ recorder.inps = <<1, 0, 1>>
    /\ Len(recorder.inputs) = 2
    /\ Len(multi_inputs.heap[recorder.inputs[1]].values) = 2
    /\ Len(multi_inputs.heap[recorder.inputs[2]].values) = 2
    /\ multi_inputs.heap[recorder.inputs[1]].values[2] = << <<1, 0>> >>
    /\ multi_inputs.heap[recorder.inputs[2]].values[2] = <<0, 1>>
=============================================================================
